---- MODULE Spec2Model ----
(***************************************************************************)
(* A model of the protocol globals and the connector lifecycle of the jay  *)
(* compositor: the KDE server-decoration objects and their manager, the    *)
(* xdg toplevel decoration, the connector handler task with the globals /  *)
(* outputs it maintains, the workspaces, and the dmabuf feedback.          *)
(***************************************************************************)
EXTENDS Integers, Sequences, FiniteSets, TLC

VARIABLES
    objects,      \* the client's object table: id -> interface, or "none"
    requested,    \* OrgKdeKwinServerDecoration.requested, per object id
    events,       \* the client's outbound event queue, in enqueue order
    nrequests,    \* the number of requests the client has sent so far
    reqlog,       \* the request_mode calls handled on the live decoration objects, with their results
    conn,         \* the connector handlers and the state they maintain (see InitConnState)
    tree,         \* the seat, the workspaces and the output nodes (see InitTreeState)
    dma,          \* the renderer, the memfds and the feedback requests (see InitDmaState)
    deco,         \* the decoration managers: the requests handled and the xdg toplevels (see InitDecoState)
    queue         \* a SyncQueue with the calls made on it (see InitQueueState)

decoVars == <<objects, requested, events, nrequests, reqlog, deco>>

vars == <<objects, requested, events, nrequests, reqlog, conn, tree, dma, deco, queue>>

(***************************************************************************)
(* The compositor state the connector handlers maintain, at start-up       *)
(***************************************************************************)

\* bounds of the connector model
MaxConnectors == 2
MaxBackendEvents == 4
MaxWidth == 2
ModeHeight == 2

Connectors == 1..MaxConnectors
\* the widths of the monitor modes; every mode is ModeHeight high
Widths == 1..MaxWidth
NoMode == 0
NoNode == -1
\* the node id of the dummy output
DummyNode == 0
WorkspaceNames == {"web"}
NoWorkspace == "none"

\* bounds of the tree
MaxSeats == 2
MaxToplevels == 3
MaxShows == 2
MaxTreeChanged == 3
MaxFloatWs == 2

\* The names OutputNode::ensure_workspace can give to a workspace
AutoNames == {ToString(i) : i \in 1..(MaxConnectors + 2)}
Names == WorkspaceNames \cup AutoNames

Toplevels == 1..MaxToplevels
NoToplevel == 0
NoContainer == 0

\* ConnectorEvent
EvConnected(w) == [type |-> "Connected", width |-> w]
EvModeChanged(w) == [type |-> "ModeChanged", width |-> w]
EvDisconnected == [type |-> "Disconnected", width |-> NoMode]
EvRemoved == [type |-> "Removed", width |-> NoMode]
ConnectorEvents ==
    {EvConnected(w) : w \in Widths} \cup {EvModeChanged(w) : w \in Widths}
        \cup {EvDisconnected, EvRemoved}

\* The state of State, of the backend's connectors and of the handler tasks
\* before any connector is announced
InitConnState ==
    [ pc |-> [c \in Connectors |-> "absent"],        \* position of the handler task
      pending |-> [c \in Connectors |-> <<>>],        \* the backend's queue behind Connector::event
      sent |-> [c \in Connectors |-> <<>>],           \* every event the backend has queued
      handled |-> [c \in Connectors |-> <<>>],        \* every event the handler has taken
      ae |-> [c \in Connectors |-> FALSE],            \* the AsyncEvent of the handler is triggered
      connected |-> [c \in Connectors |-> FALSE],     \* ConnectorData.connected
      handler |-> [c \in Connectors |-> FALSE],       \* ConnectorData.handler is Some
      on |-> [c \in Connectors |-> NoNode],           \* the OutputNode handle_connected holds
      connectors |-> {},                              \* keys of State.connectors
      outputs |-> [c \in Connectors |-> NoNode],      \* State.outputs: connector -> node
      root_outputs |-> [c \in Connectors |-> NoNode], \* State.root.outputs: connector -> node
      globals |-> {},                                 \* names registered in State.globals
      next_name |-> 1,                                \* State.globals.name()
      next_node |-> 1,                                \* State.node_ids
      seat_pos |-> <<0, 0>>,                          \* the position of the seats
      cfglog |-> <<>>,                                \* the callbacks made to the configuration
      reglog |-> <<>>,                                \* the globals added to and removed from State.globals
      has_config |-> TRUE,                            \* State.config is Some
      \* the output nodes; the dummy output exists from the start
      nodes |-> [n \in {DummyNode} |->
                   [connector |-> 0, global |-> 0, x1 |-> 0, width |-> 0,
                    global_node |-> FALSE, workspaces |-> <<>>,
                    workspace |-> NoWorkspace, is_dummy |-> TRUE,
                    seen_x2 |-> {}]] ]

\* The workspaces and the seat before any output is connected
InitTreeState ==
    [ workspaces |-> [w \in Names |-> NoNode],   \* State.workspaces: name -> its output
      seat_output |-> DummyNode,                 \* WlSeatGlobal::get_output of the seat last active
      seats |-> 1,                               \* the number of seats in State.globals.seats
      tree_changed_sent |-> FALSE,               \* State.tree_changed_sent
      tree_changed_calls |-> 0,                  \* calls of tree_changed since the last reset
      triggers |-> [s \in 1..MaxSeats |-> 0],    \* trigger_tree_changed of each seat since then
      showlog |-> <<>>,                          \* the calls of show_workspace
      kb_focus |-> <<"none">>,                   \* the keyboard focus of the seat
      last_tiled |-> NoToplevel,                 \* the seat's last tiled keyboard toplevel
      parent |-> [t \in Toplevels |-> <<"none">>],   \* Node::parent of each toplevel
      containers |-> <<>>,                       \* the ContainerNodes, by id
      ws_container |-> [w \in Names |-> NoContainer],   \* WorkspaceNode.container
      maplog |-> <<>>,                           \* the calls of map_tiled
      floats |-> <<>>,                           \* the calls of map_floating with the FloatNodes
      wslog |-> <<>>,                            \* the calls of float_map_ws with the workspaces returned
      \* what the next toplevel asks of map_floating: its size, the rectangle
      \* of the output of its workspace, and whether the build checks overflows
      float_input |-> [width |-> 0, height |-> 0,
                       output_rect |-> [x1 |-> 0, y1 |-> 0, width |-> 0, height |-> 0],
                       overflow_checks |-> FALSE] ]

\* State.render_ctx is None
NoRenderCtx ==
    [present |-> FALSE, formats |-> <<>>, supports_external_texture |-> FALSE, dev |-> 0]

\* The dmabuf state of a client that has made no request, for a render context
InitDmaState(render) ==
    [ render |-> render,                     \* State.render_ctx
      fds |-> <<>>,                          \* the memfds created, by descriptor
      fblog |-> <<>>,                        \* the feedback requests handled, with results
      bindlog |-> <<>>,                      \* the binds handled, with results
      panicked |-> FALSE ]                   \* a handler has panicked

\* The decoration of an xdg toplevel (XdgToplevel.decoration)
Decorations == {"Client", "Server"}

InitDecoState ==
    [ nbinds |-> 0,                                  \* the number of manager binds handled
      last |-> <<>>,                                 \* the bind, create or xdg decoration request the latest step handled, with its result
      decoration |-> [t \in {} |-> "Server"] ]       \* XdgToplevel.decoration of the toplevel of each xdg decoration object

\* SyncQueue::default: an empty queue, on which no call has been made
InitQueueState ==
    [ el |-> <<>>,          \* SyncQueue.el, the VecDeque
      pushed |-> <<>>,      \* the elements pushed so far, in order
      popped |-> <<>>,      \* the elements pop has returned so far, in order
      ncalls |-> 0,         \* the number of calls made
      ret |-> <<>> ]        \* what the latest call returned

(***************************************************************************)
(* org_kde_kwin_server_decoration and its manager                          *)
(***************************************************************************)

NONE == 0
CLIENT == 1
SERVER == 2

\* bounds of the decoration model
MaxObjectId == 5
MaxMode == 5
MaxRequests == 4
MaxManagerBinds == 1

\* the wl_surface objects the client has created beforehand
Surfaces == {3}
ObjectIds == 3..MaxObjectId
Modes == 0..MaxMode

Ok == <<"Ok">>
InvalidMode(m) == <<"InvalidMode", m>>

\* OrgKdeKwinServerDecoration::mode: the mode event of object id
ModeEvent(id, mode) == [obj |-> id, ev |-> "mode", mode |-> mode]

\* Client::event: append to the outbound queue
ClientEvent(q, e) == Append(q, e)

InitDeco ==
    /\ objects = [i \in ObjectIds |-> IF i \in Surfaces THEN "wl_surface" ELSE "none"]
    /\ requested = [i \in ObjectIds |-> FALSE]
    /\ events = <<>>
    /\ nrequests = 0
    /\ reqlog = <<>>
    /\ deco = InitDecoState
    /\ queue = InitQueueState
    /\ conn = InitConnState
    /\ tree = InitTreeState
    /\ dma = InitDmaState(NoRenderCtx)

ManagerKind == "org_kde_kwin_server_decoration_manager"

\* the errors of Client::lookup and Client::add_client_obj
LookupError == <<"ClientError", "lookup">>
IdInUse == <<"ClientError", "add_client_obj">>

\* OrgKdeKwinServerDecorationManager::default_mode: the event of manager id
DefaultModeEvent(id, mode) == [obj |-> id, ev |-> "default_mode", mode |-> mode]

\* an entry of the log of the requests the decoration managers handled
Call(req, obj, arg, result) == [req |-> req, obj |-> obj, arg |-> arg, result |-> result]

Logged(d, call) == [d EXCEPT !.last = call,
                                !.nbinds = IF call.req = "bind" THEN @ + 1 ELSE @]

\* the latest step handled a request that is not logged in deco
NotLogged(d) == [d EXCEPT !.last = <<>>]

BindRegisters_EventFirst(id) == TRUE

\* Does bind_ get past add_client_obj? It fails when the id is in use
BindRegisters(id) == objects[id] = "none"

\* OrgKdeKwinServerDecorationManagerGlobal::bind_
manager_bind_(id) ==
    /\ deco.nbinds < MaxManagerBinds
    /\ IF BindRegisters(id)
       THEN /\ objects' = [objects EXCEPT ![id] = IF @ = "none" THEN ManagerKind ELSE @]
            /\ events' = ClientEvent(events, DefaultModeEvent(id, SERVER))
            /\ deco' = Logged(deco, Call("bind", id, 1,
                                         IF objects[id] = "none" THEN Ok ELSE IdInUse))
       ELSE /\ deco' = Logged(deco, Call("bind", id, 1, IdInUse))
            /\ UNCHANGED <<objects, events>>
    /\ UNCHANGED <<requested, nrequests, reqlog, conn, tree, queue, dma>>

SurfaceResolves_Any(surface) == TRUE

\* Client::lookup of a wl_surface id
SurfaceResolves(surface) == objects[surface] = "wl_surface"

\* OrgKdeKwinServerDecorationManager::create
create(surface, id) ==
    /\ nrequests < MaxRequests
    /\ nrequests' = nrequests + 1
    /\ IF ~SurfaceResolves(surface)
       THEN /\ deco' = Logged(deco, Call("create", id, surface, LookupError))
            /\ UNCHANGED <<objects, requested, events>>
       ELSE IF objects[id] # "none"
       THEN /\ deco' = Logged(deco, Call("create", id, surface, IdInUse))
            /\ UNCHANGED <<objects, requested, events>>
       ELSE /\ objects' = [objects EXCEPT ![id] = "org_kde_kwin_server_decoration"]
            /\ requested' = [requested EXCEPT ![id] = FALSE]
            /\ events' = ClientEvent(events, ModeEvent(id, SERVER))
            /\ deco' = Logged(deco, Call("create", id, surface, Ok))
    /\ UNCHANGED <<reqlog, conn, tree, queue, dma>>

AnswerMode_AlwaysRequested(was_requested, mode) == mode

\* The mode request_mode answers with: the first accepted request gets SERVER
AnswerMode(was_requested, mode) == IF was_requested THEN mode ELSE SERVER

ModeRejected_ServerToo(mode) == mode >= SERVER

ModeRejected_UpToFour(mode) == mode > SERVER + 2

\* The check of request_mode: is the requested mode rejected?
ModeRejected(mode) == mode > SERVER

request_mode_FlagBeforeCheck(id, mode) ==
    /\ objects[id] = "org_kde_kwin_server_decoration"
    /\ nrequests < MaxRequests
    /\ nrequests' = nrequests + 1
    /\ requested' = [requested EXCEPT ![id] = TRUE]
    /\ deco' = NotLogged(deco)
    /\ IF ModeRejected(mode)
       THEN /\ reqlog' = Append(reqlog, [obj |-> id, mode |-> mode, result |-> InvalidMode(mode)])
            /\ UNCHANGED <<objects, events, conn, tree, queue, dma>>
       ELSE /\ events' = ClientEvent(events, ModeEvent(id, AnswerMode(requested[id], mode)))
            /\ reqlog' = Append(reqlog, [obj |-> id, mode |-> mode, result |-> Ok])
            /\ UNCHANGED <<objects, conn, tree, queue, dma>>

\* OrgKdeKwinServerDecoration::request_mode
request_mode(id, mode) ==
    /\ objects[id] = "org_kde_kwin_server_decoration"
    /\ nrequests < MaxRequests
    /\ nrequests' = nrequests + 1
    /\ IF ModeRejected(mode)
       THEN /\ reqlog' = Append(reqlog, [obj |-> id, mode |-> mode, result |-> InvalidMode(mode)])
            /\ deco' = NotLogged(deco)
            /\ UNCHANGED <<objects, requested, events, conn, tree, queue, dma>>
       ELSE /\ requested' = [requested EXCEPT ![id] = TRUE]
            /\ events' = ClientEvent(events, ModeEvent(id, AnswerMode(requested[id], mode)))
            /\ reqlog' = Append(reqlog, [obj |-> id, mode |-> mode, result |-> Ok])
            /\ deco' = NotLogged(deco)
            /\ UNCHANGED <<objects, conn, tree, queue, dma>>

\* The entries of the request log that belong to the objects in ids
LogOf(log, ids) == SelectSeq(log, LAMBDA r : r.obj \in ids)

\* OrgKdeKwinServerDecoration::release
release(id) ==
    /\ objects[id] = "org_kde_kwin_server_decoration"
    /\ nrequests < MaxRequests
    /\ nrequests' = nrequests + 1
    /\ objects' = [objects EXCEPT ![id] = "none"]
    /\ reqlog' = LogOf(reqlog, ObjectIds \ {id})
    /\ deco' = NotLogged(deco)
    /\ UNCHANGED <<requested, events, conn, tree, queue, dma>>

\* The client's socket is flushed: the queued events leave the queue, and
\* the file descriptors they carry pass to the client and are closed locally
Flush ==
    /\ events # <<>>
    /\ events' = <<>>
    /\ dma' = [dma EXCEPT !.fds =
                 [f \in DOMAIN dma.fds |->
                    IF \E i \in 1..Len(events) :
                           events[i].ev = "format_table" /\ events[i].fd = f
                    THEN [dma.fds[f] EXCEPT !.closes = @ + 1, !.sent = TRUE]
                    ELSE dma.fds[f]]]
    /\ deco' = NotLogged(deco)
    /\ UNCHANGED <<objects, requested, nrequests, reqlog, conn, tree, queue>>

NextDeco ==
    \/ \E s \in ObjectIds, id \in ObjectIds : create(s, id)
    \/ \E id \in ObjectIds, m \in Modes : request_mode(id, m)
    \/ \E id \in ObjectIds : release(id)
    \/ Flush

SpecDeco == InitDeco /\ [][NextDeco]_vars

\* The manager alone: binds of the global and create requests
NextManager ==
    \/ \E id \in ObjectIds : manager_bind_(id)
    \/ \E s \in ObjectIds, id \in ObjectIds : create(s, id)
    \/ Flush

SpecManager == InitDeco /\ [][NextManager]_vars

(***************************************************************************)
(* Properties of request_mode                                              *)
(***************************************************************************)

DecoKind == "org_kde_kwin_server_decoration"

\* Has a request_mode been accepted on object id, according to the log?
HasAccepted(log, id) == \E i \in 1..Len(log) : log[i].obj = id /\ log[i].result = Ok

\* This step handles one request_mode: the log grows by one entry
RequestModeStep == Len(reqlog') = Len(reqlog) + 1 /\ SubSeq(reqlog', 1, Len(reqlog)) = reqlog

Handled == reqlog'[Len(reqlog')]

\* C1: on each decoration object, the first accepted request_mode(m) is
\* answered with exactly one mode event carrying SERVER, whatever m is, and
\* every later accepted request_mode(m) on that object with exactly one
\* mode event carrying m.
C1_FirstServerThenRequested ==
    [][(RequestModeStep /\ Handled.result = Ok) =>
          events' = Append(events,
                      ModeEvent(Handled.obj,
                                IF HasAccepted(reqlog, Handled.obj)
                                THEN Handled.mode ELSE SERVER))]_vars

\* Two requests were accepted on one object, the second with a mode other
\* than SERVER, and its answer is on the queue.
C1_Witness ==
    \E i, j \in 1..Len(reqlog) :
        /\ i < j
        /\ reqlog[i].obj = reqlog[j].obj
        /\ reqlog[i].result = Ok /\ reqlog[j].result = Ok
        /\ reqlog[j].mode # SERVER
        /\ events # <<>>
        /\ events[Len(events)] = ModeEvent(reqlog[j].obj, reqlog[j].mode)

\* C2: request_mode(m) with m > SERVER fails with InvalidMode(m) and
\* enqueues no event; request_mode(m) with m <= SERVER never fails and
\* enqueues exactly one mode event.
C2_InvalidModeIffAboveServer ==
    [][RequestModeStep =>
          IF Handled.mode > SERVER
          THEN Handled.result = InvalidMode(Handled.mode) /\ events' = events
          ELSE /\ Handled.result = Ok
               /\ Len(events') = Len(events) + 1
               /\ SubSeq(events', 1, Len(events)) = events
               /\ events'[Len(events')].obj = Handled.obj
               /\ events'[Len(events')].ev = "mode"]_vars

\* Both a rejected request and an accepted request_mode(SERVER) were handled.
C2_Witness ==
    /\ \E i \in 1..Len(reqlog) : reqlog[i].result = InvalidMode(reqlog[i].mode)
    /\ \E i \in 1..Len(reqlog) : reqlog[i].mode = SERVER /\ reqlog[i].result = Ok

\* The request_mode calls handled on object 5 so far
Handled5 == LogOf(reqlog, {5})

\* This step handles request_mode(m) on object 5
Request5(m) == RequestModeStep /\ Handled.obj = 5 /\ Handled.mode = m

\* C3 as stated: on the fresh object 5, request_mode(4) is answered with
\* mode(SERVER), a second request_mode(4) with mode(4), and request_mode(5)
\* is rejected with invalid_mode.
C3_ScenarioAsStated ==
    [][/\ (Request5(4) /\ Handled5 = <<>>) =>
            /\ Handled.result = Ok
            /\ events' = Append(events, ModeEvent(5, SERVER))
       /\ (Request5(4) /\ Len(Handled5) = 1 /\ Handled5[1].mode = 4) =>
            /\ Handled.result = Ok
            /\ events' = Append(events, ModeEvent(5, 4))
       /\ Request5(5) => Handled.result = InvalidMode(5)]_vars

\* C3 amended: on the fresh object 5, request_mode(4) is rejected with
\* invalid_mode and enqueues nothing, the first and the second time, and so
\* is a following request_mode(5); the answers mode(SERVER), then mode(m)
\* are given to requests with m <= SERVER, such as request_mode(1) twice.
C3_ScenarioRejectsFour ==
    [][/\ (Request5(4) /\ Len(Handled5) <= 1) =>
            /\ Handled.result = InvalidMode(4)
            /\ events' = events
       /\ Request5(5) => Handled.result = InvalidMode(5) /\ events' = events
       /\ (Request5(CLIENT) /\ Handled5 = <<>>) =>
            events' = Append(events, ModeEvent(5, SERVER))
       /\ (Request5(CLIENT) /\ Handled5 = <<[obj |-> 5, mode |-> CLIENT, result |-> Ok]>>) =>
            events' = Append(events, ModeEvent(5, CLIENT))]_vars

\* The scenario has run on object 5: request_mode(4) twice, then request_mode(5)
C3_Witness ==
    /\ objects[5] = DecoKind
    /\ Handled5 = << [obj |-> 5, mode |-> 4, result |-> InvalidMode(4)],
                     [obj |-> 5, mode |-> 4, result |-> InvalidMode(4)],
                     [obj |-> 5, mode |-> 5, result |-> InvalidMode(5)] >>

(***************************************************************************)
(* The connector lifecycle (tasks/connector.rs) and the state it maintains *)
(***************************************************************************)

Max(S) == CHOOSE x \in S : \A y \in S : y <= x

\* Rect::x2 of the position of the wl_output global of node n
X2(st, n) == st.nodes[n].x1 + st.nodes[n].width

\* The connectors that have an entry in a CopyHashMap connector -> node
Keys(map) == {c \in Connectors : map[c] # NoNode}

\* A call of the configuration callback cb for connector c, with what the
\* callback can observe of the connector at that moment
ConfigCall(st, cb, c) ==
    IF st.has_config
    THEN [st EXCEPT !.cfglog = Append(@, [cb |-> cb, connector |-> c,
                                          connected |-> st.connected[c],
                                          in_root |-> st.root_outputs[c] # NoNode])]
    ELSE st

\* Connector::event: take the next pending event of connector c
PopEvent(st, c) ==
    [st EXCEPT !.pending[c] = Tail(@), !.handled[c] = Append(@, Head(st.pending[c]))]

\* State::add_global
add_global(st, name) ==
    [st EXCEPT !.globals = @ \cup {name}, !.reglog = Append(@, <<"add", name>>)]

\* State::remove_global; Globals::remove fails when the name is not registered
remove_global(st, name) ==
    IF name \in st.globals
    THEN [st EXCEPT !.globals = @ \ {name}, !.reglog = Append(@, <<"remove", name>>)]
    ELSE st

NewOutputX1_AlwaysZero(st) == 0

\* The horizontal position of a new output: right of every registered output
NewOutputX1(st) ==
    IF Keys(st.root_outputs) = {} THEN 0
    ELSE Max({X2(st, st.root_outputs[o]) : o \in Keys(st.root_outputs)})

\* handle_connected up to its event loop: the output is created and registered
OutputConnected(st, c, width) ==
    LET name == st.next_name
        x1 == NewOutputX1(st)
        n == st.next_node
        s1 == [st EXCEPT !.connected[c] = TRUE,
                         !.next_name = @ + 1,
                         !.next_node = @ + 1,
                         !.on[c] = n,
                         !.nodes = [m \in DOMAIN st.nodes \cup {n} |->
                                      IF m = n
                                      THEN [connector |-> c, global |-> name, x1 |-> x1,
                                            width |-> width, global_node |-> FALSE,
                                            workspaces |-> <<>>, workspace |-> NoWorkspace,
                                            is_dummy |-> FALSE,
                                            \* the x2 of the outputs in the root at this moment
                                            seen_x2 |-> {X2(st, st.root_outputs[o]) :
                                                            o \in Keys(st.root_outputs)}]
                                      ELSE st.nodes[m]],
                         !.outputs[c] = n]
        s2 == IF Cardinality(Keys(s1.outputs)) = 1
              THEN [s1 EXCEPT !.seat_pos = <<x1 + (width \div 2), ModeHeight \div 2>>]
              ELSE s1
        s3 == [s2 EXCEPT !.nodes[n].global_node = TRUE]
        s4 == ConfigCall(s3, "connector_connected", c)
        s5 == [s4 EXCEPT !.root_outputs[c] = n]
    IN add_global(s5, name)

\* OutputNode::update_mode
update_mode(st, n, width) == [st EXCEPT !.nodes[n].width = width]

OutputDisconnected_KeepsOutput(st, c) ==
    LET n == st.on[c]
        s1 == ConfigCall(st, "connector_disconnected", c)
        s2 == [s1 EXCEPT !.nodes[n].global_node = FALSE]
        s3 == remove_global(s2, st.nodes[n].global)
    IN [s3 EXCEPT !.root_outputs[c] = NoNode,
                  !.connected[c] = FALSE,
                  !.on[c] = NoNode]

OutputDisconnected_ClearsRoot(st, c) ==
    LET n == st.on[c]
        s1 == ConfigCall(st, "connector_disconnected", c)
        s2 == [s1 EXCEPT !.nodes[n].global_node = FALSE]
        s3 == remove_global(s2, st.nodes[n].global)
    IN [s3 EXCEPT !.root_outputs = [d \in Connectors |-> NoNode],
                  !.connected[c] = FALSE,
                  !.outputs[c] = NoNode,
                  !.on[c] = NoNode]

OutputDisconnected_FlagFirst(st, c) ==
    LET n == st.on[c]
        s1 == ConfigCall([st EXCEPT !.connected[c] = FALSE], "connector_disconnected", c)
        s2 == [s1 EXCEPT !.nodes[n].global_node = FALSE]
        s3 == remove_global(s2, st.nodes[n].global)
    IN [s3 EXCEPT !.root_outputs[c] = NoNode,
                  !.outputs[c] = NoNode,
                  !.on[c] = NoNode]

\* handle_connected after its event loop: the output is taken down
OutputDisconnected(st, c) ==
    LET n == st.on[c]
        s1 == ConfigCall(st, "connector_disconnected", c)
        s2 == [s1 EXCEPT !.nodes[n].global_node = FALSE]
        s3 == remove_global(s2, st.nodes[n].global)
    IN [s3 EXCEPT !.root_outputs[c] = NoNode,
                  !.connected[c] = FALSE,
                  !.outputs[c] = NoNode,
                  !.on[c] = NoNode]

\* The end of ConnectorHandler::handle, after the Removed event
HandlerFinished(st, c) ==
    LET s1 == ConfigCall(st, "del_connector", c)
    IN [s1 EXCEPT !.handler[c] = FALSE,
                  !.connectors = @ \ {c},
                  !.pc[c] = "done"]

InnerDispatch_ModeChangedUnreachable(event) ==
    IF event.type = "Disconnected" THEN "break" ELSE "unreachable"

\* The match of the event loop of handle_connected
InnerDispatch(event) ==
    CASE event.type = "Disconnected" -> "break"
      [] event.type = "ModeChanged" -> "update_mode"
      [] OTHER -> "unreachable"

\* The match of the event loop of ConnectorHandler::handle
OuterDispatch(event) ==
    CASE event.type = "Removed" -> "break"
      [] event.type = "Connected" -> "handle_connected"
      [] OTHER -> "unreachable"

\* F applied to the value of e, with e evaluated once: TLC evaluates an
\* operator argument again at each of its uses when it evaluates ENABLED
Eager(e, F(_)) == CHOOSE r \in {F(x) : x \in {e}} : TRUE

RECURSIVE OuterLoop(_, _), InnerLoop(_, _), OuterLoopFrom(_, _), InnerLoopFrom(_, _)

\* The event loop of handle_connected, run until the task suspends or ends
InnerLoopFrom(st, c) ==
    IF st.pending[c] = <<>>
    THEN IF st.ae[c]
         THEN InnerLoop([st EXCEPT !.ae[c] = FALSE], c)
         ELSE [st EXCEPT !.pc[c] = "wait_inner"]
    ELSE LET event == Head(st.pending[c])
             s1 == PopEvent(st, c)
         IN CASE InnerDispatch(event) = "break" -> OuterLoop(OutputDisconnected(s1, c), c)
              [] InnerDispatch(event) = "update_mode" ->
                    InnerLoop(update_mode(s1, s1.on[c], event.width), c)
              [] OTHER -> [s1 EXCEPT !.pc[c] = "panicked"]

InnerLoop(st, c) ==
    Eager(st, LAMBDA s : InnerLoopFrom(s, c))

\* The event loop of ConnectorHandler::handle, run until the task suspends or ends
OuterLoopFrom(st, c) ==
    IF st.pending[c] = <<>>
    THEN IF st.ae[c]
         THEN OuterLoop([st EXCEPT !.ae[c] = FALSE], c)
         ELSE [st EXCEPT !.pc[c] = "wait_outer"]
    ELSE LET event == Head(st.pending[c])
             s1 == PopEvent(st, c)
         IN CASE OuterDispatch(event) = "break" -> HandlerFinished(s1, c)
              [] OuterDispatch(event) = "handle_connected" ->
                    InnerLoop(OutputConnected(s1, c, event.width), c)
              [] OTHER -> [s1 EXCEPT !.pc[c] = "panicked"]

OuterLoop(st, c) ==
    Eager(st, LAMBDA s : OuterLoopFrom(s, c))

\* A seat whose output has disappeared from the root falls back to the
\* dummy output
SeatFallback(t, st) ==
    IF t.seat_output \in {st.root_outputs[c] : c \in Keys(st.root_outputs)} \cup {DummyNode}
    THEN t
    ELSE [t EXCEPT !.seat_output = DummyNode]

\* The compositor runs: no task has panicked
Running == \A c \in Connectors : conn.pc[c] # "panicked"

\* tasks::connector::handle: the backend announces connector c
handle(c) ==
    /\ Running
    /\ conn.pc[c] = "absent"
    /\ conn' = [conn EXCEPT !.pc[c] = "start", !.handler[c] = TRUE,
                            !.connectors = @ \cup {c}]
    /\ UNCHANGED <<decoVars, queue, tree, dma>>

\* The handler task of connector c runs for the first time, until it suspends
HandlerStart(c) ==
    /\ Running
    /\ conn.pc[c] = "start"
    /\ conn' = OuterLoop(ConfigCall(conn, "new_connector", c), c)
    /\ tree' = SeatFallback(tree, conn')
    /\ UNCHANGED <<decoVars, queue, dma>>

HandlerWake_OuterOnly(c) ==
    /\ Running
    /\ conn.ae[c]
    /\ conn.pc[c] = "wait_outer"
    /\ conn' = OuterLoop([conn EXCEPT !.ae[c] = FALSE], c)
    /\ tree' = SeatFallback(tree, conn')
    /\ UNCHANGED <<decoVars, queue, dma>>

\* The handler task of connector c is woken by its AsyncEvent and runs
\* until it suspends again
HandlerWake(c) ==
    /\ Running
    /\ conn.ae[c]
    /\ \/ /\ conn.pc[c] = "wait_outer"
          /\ conn' = OuterLoop([conn EXCEPT !.ae[c] = FALSE], c)
       \/ /\ conn.pc[c] = "wait_inner"
          /\ conn' = InnerLoop([conn EXCEPT !.ae[c] = FALSE], c)
    /\ tree' = SeatFallback(tree, conn')
    /\ UNCHANGED <<decoVars, queue, dma>>

RECURSIVE SumLen(_, _)
SumLen(f, S) ==
    IF S = {} THEN 0
    ELSE LET x == CHOOSE y \in S : TRUE IN Len(f[x]) + SumLen(f, S \ {x})

\* The backend queues an event for connector c and invokes the on_change
\* callback, which the handler registers when it first runs
BackendEvent(c, event) ==
    /\ Running
    /\ conn.pc[c] # "absent"
    /\ SumLen(conn.sent, Connectors) < MaxBackendEvents
    /\ conn' = [conn EXCEPT !.pending[c] = Append(@, event),
                            !.sent[c] = Append(@, event),
                            !.ae[c] = IF conn.pc[c] = "start" THEN @ ELSE TRUE]
    /\ UNCHANGED <<decoVars, queue, tree, dma>>

\* The output nodes registered with the root
RootNodes == {conn.root_outputs[c] : c \in Keys(conn.root_outputs)}

\* The pointer of the seat moves onto output node n
SeatMove(n) ==
    /\ Running
    /\ tree.seats > 0
    /\ n \in RootNodes \cup {DummyNode}
    /\ n # tree.seat_output
    /\ tree' = [tree EXCEPT !.seat_output = n]
    /\ UNCHANGED <<decoVars, queue, conn, dma>>

output_show_workspace_Noop(st, n, name) == st

\* OutputNode::show_workspace: name becomes the current workspace of node n
output_show_workspace(st, n, name) == [st EXCEPT !.nodes[n].workspace = name]

tree_changed_NotCoalesced(t) ==
    [t EXCEPT !.tree_changed_sent = TRUE,
              !.tree_changed_calls = @ + 1,
              !.triggers = [s \in DOMAIN @ |-> IF s <= t.seats THEN @[s] + 1 ELSE @[s]]]

\* State::tree_changed
tree_changed(t) ==
    IF t.tree_changed_sent
    THEN [t EXCEPT !.tree_changed_calls = @ + 1]
    ELSE [t EXCEPT !.tree_changed_sent = TRUE,
                   !.tree_changed_calls = @ + 1,
                   !.triggers = [s \in DOMAIN @ |-> IF s <= t.seats THEN @[s] + 1 ELSE @[s]]]

\* The entry of the log for a call of show_workspace
ShowCall(name, result) ==
    [name |-> name, result |-> result, existed |-> tree.workspaces[name] # NoNode,
     seat_output |-> tree.seat_output]

show_workspace_OnDummyToo(name) ==
    /\ Running
    /\ tree.seats > 0
    /\ Len(tree.showlog) < MaxShows
    /\ tree.tree_changed_calls < MaxTreeChanged
    /\ LET output == tree.seat_output
       IN /\ conn' = output_show_workspace(
                        [conn EXCEPT !.nodes[output].workspaces = Append(@, name)],
                        output, name)
          /\ tree' = tree_changed(
                        [tree EXCEPT !.workspaces[name] = output,
                                     !.showlog = Append(@, ShowCall(name, "created"))])
    /\ UNCHANGED <<decoVars, queue, dma>>

\* State::show_workspace, called for the seat last active
show_workspace(name) ==
    /\ Running
    /\ tree.seats > 0
    /\ Len(tree.showlog) < MaxShows
    /\ tree.tree_changed_calls < MaxTreeChanged
    /\ IF tree.workspaces[name] # NoNode
       THEN LET output == tree.workspaces[name]
                did_change == conn.nodes[output].workspace # name
                t1 == [tree EXCEPT !.kb_focus = <<"last_active_child", name>>]
            IN /\ conn' = output_show_workspace(conn, output, name)
               /\ tree' = IF ~did_change
                          THEN [t1 EXCEPT !.showlog = Append(@, ShowCall(name, "shown"))]
                          ELSE tree_changed(
                                 [t1 EXCEPT !.showlog = Append(@, ShowCall(name, "changed"))])
       ELSE LET output == tree.seat_output
            IN IF conn.nodes[output].is_dummy
               THEN /\ tree' = [tree EXCEPT !.showlog = Append(@, ShowCall(name, "refused"))]
                    /\ UNCHANGED conn
               ELSE /\ conn' = output_show_workspace(
                                  [conn EXCEPT !.nodes[output].workspaces = Append(@, name)],
                                  output, name)
                    /\ tree' = tree_changed(
                                  [tree EXCEPT !.workspaces[name] = output,
                                               !.showlog = Append(@, ShowCall(name, "created"))])
    /\ UNCHANGED <<decoVars, queue, dma>>

InitConn ==
    /\ objects = [i \in ObjectIds |-> IF i \in Surfaces THEN "wl_surface" ELSE "none"]
    /\ requested = [i \in ObjectIds |-> FALSE]
    /\ events = <<>>
    /\ nrequests = 0
    /\ reqlog = <<>>
    /\ deco = InitDecoState
    /\ queue = InitQueueState
    /\ conn = InitConnState
    /\ tree = InitTreeState
    /\ dma = InitDmaState(NoRenderCtx)

NextConn ==
    \/ \E c \in Connectors : handle(c)
    \/ \E c \in Connectors : HandlerStart(c)
    \/ \E c \in Connectors : HandlerWake(c)
    \/ \E c \in Connectors, event \in ConnectorEvents : BackendEvent(c, event)

SpecConn == InitConn /\ [][NextConn]_vars

\* The executor runs every task that is ready: a handler that was spawned
\* or woken is eventually polled
ConnFairness ==
    \A c \in Connectors : WF_vars(HandlerStart(c)) /\ WF_vars(HandlerWake(c))

SpecConnLive == SpecConn /\ ConnFairness

\* The connectors come and go while the seat moves and shows workspaces
NextHotplug ==
    \/ NextConn
    \/ \E n \in DOMAIN conn.nodes : SeatMove(n)
    \/ \E name \in WorkspaceNames : show_workspace(name)

SpecHotplug == InitConn /\ [][NextHotplug]_vars

(***************************************************************************)
(* Properties of the connector lifecycle                                   *)
(***************************************************************************)

\* The output nodes created for connector c
NodesOf(c) == {n \in DOMAIN conn.nodes : conn.nodes[n].connector = c}

\* The output nodes of connector c that are in use: held by State.outputs or
\* by the root, or with their wl_output global registered
Outputs(c) ==
    {n \in NodesOf(c) : \/ conn.outputs[c] = n
                         \/ conn.root_outputs[c] = n
                         \/ conn.nodes[n].global \in conn.globals}

\* C4: whenever the handlers are suspended, every connector has at most one
\* Output, and ConnectorData.connected, the entry in state.outputs, the
\* entry in root.outputs and the registration of the wl_output global are
\* all true or all false, after any sequence of connector events.
C4_OutputIffConnected ==
    Running =>
      \A c \in Connectors :
        /\ Cardinality(Outputs(c)) <= 1
        /\ conn.connected[c] = (conn.outputs[c] # NoNode)
        /\ conn.connected[c] = (conn.root_outputs[c] # NoNode)
        /\ conn.connected[c] = (\E n \in NodesOf(c) : conn.nodes[n].global \in conn.globals)

\* A connector is connected again after a disconnect
C4_Witness ==
    \E c \in Connectors :
        /\ conn.connected[c]
        /\ conn.pc[c] = "wait_inner"
        /\ Len(conn.handled[c]) >= 3
        /\ conn.handled[c][2] = EvDisconnected
        /\ conn.handled[c][3].type = "Connected"

\* The lifecycle state after a sequence of events; "Invalid" when the
\* sequence is not a prefix of (Connected ModeChanged* Disconnected)* Removed
RECURSIVE Life(_)
Life(seq) ==
    IF seq = <<>> THEN "Disconnected"
    ELSE LET before == Life(SubSeq(seq, 1, Len(seq) - 1))
             type == seq[Len(seq)].type
         IN CASE before = "Disconnected" /\ type = "Connected" -> "Connected"
              [] before = "Connected" /\ type = "ModeChanged" -> "Connected"
              [] before = "Connected" /\ type = "Disconnected" -> "Disconnected"
              [] before = "Disconnected" /\ type = "Removed" -> "Removed"
              [] OTHER -> "Invalid"

IsPrefix(s, t) == Len(s) <= Len(t) /\ SubSeq(t, 1, Len(s)) = s

\* The handler of a connector with a well-formed event sequence is where
\* the events it has handled put it
C5_Lifecycle ==
    \A c \in Connectors :
      Life(conn.sent[c]) # "Invalid" =>
        /\ conn.pc[c] # "panicked"
        /\ IsPrefix(conn.handled[c], conn.sent[c])
        /\ conn.pc[c] \in {"absent", "start"} => conn.handled[c] = <<>>
        /\ (conn.pc[c] = "wait_outer") => Life(conn.handled[c]) = "Disconnected"
        /\ (conn.pc[c] = "wait_inner") = (Life(conn.handled[c]) = "Connected")
        /\ (conn.pc[c] = "done") = (Life(conn.handled[c]) = "Removed")
        /\ conn.connected[c] = (Life(conn.handled[c]) = "Connected")

\* A handler that has ended stays ended and takes no event
C5_RemovedIsTerminal ==
    \A c \in Connectors :
      conn.pc[c] = "done" => conn'.pc[c] = "done" /\ conn'.handled[c] = conn.handled[c]

\* C5: for every event sequence of the form (Connected ModeChanged*
\* Disconnected)* Removed the handler goes Disconnected -> Connected ->
\* Disconnected -> Removed: ModeChanged keeps it Connected, it may connect
\* and disconnect repeatedly, Removed ends the task, which handles no later
\* event, and no unreachable!() is reached.
C5_LifecycleFollowed == []C5_Lifecycle /\ [][C5_RemovedIsTerminal]_vars

\* A whole life Connected, ModeChanged, Disconnected, Removed was handled
C5_Witness ==
    \E c \in Connectors :
        /\ conn.pc[c] = "done"
        /\ Len(conn.handled[c]) = 4
        /\ conn.handled[c][2].type = "ModeChanged"
        /\ conn.handled[c] = conn.sent[c]

\* The events the handler of connector c takes in this step
NewHandled(c) == SubSeq(conn'.handled[c], Len(conn.handled[c]) + 1, Len(conn'.handled[c]))

\* The removals from the global registry in this step
NewRemoves ==
    SelectSeq(SubSeq(conn'.reglog, Len(conn.reglog) + 1, Len(conn'.reglog)),
              LAMBDA r : r[1] = "remove")

\* The wl_output global created by the latest Connected of connector c
LatestGlobal(c) == conn.nodes[Max(NodesOf(c))].global

\* C6: with several connectors, handling Disconnected for connector c
\* removes exactly one global, the wl_output global created by c's latest
\* Connected, and exactly c's entries of root.outputs and state.outputs; the
\* globals, entries and connected flags of the other connectors are unchanged.
C6_DisconnectRemovesOnlyOwn ==
    [][\A c \in Connectors :
         (\E i \in 1..Len(NewHandled(c)) : NewHandled(c)[i] = EvDisconnected) =>
           /\ \A i \in 1..Len(NewRemoves) :
                 \E n \in DOMAIN conn'.nodes :
                     conn'.nodes[n].connector = c /\ NewRemoves[i][2] = conn'.nodes[n].global
           /\ conn'.pc[c] # "panicked" =>
                 Len(NewRemoves) = Len(SelectSeq(NewHandled(c), LAMBDA e : e = EvDisconnected))
           /\ conn.pc[c] = "wait_inner" =>
                 /\ NewRemoves[1] = <<"remove", LatestGlobal(c)>>
                 /\ LatestGlobal(c) \in conn.globals /\ LatestGlobal(c) \notin conn'.globals
                 /\ conn'.root_outputs[c] # conn.root_outputs[c]
                 /\ conn'.outputs[c] # conn.outputs[c]
           /\ \A d \in Connectors \ {c} :
                 /\ conn'.root_outputs[d] = conn.root_outputs[d]
                 /\ conn'.outputs[d] = conn.outputs[d]
                 /\ conn'.connected[d] = conn.connected[d]
                 /\ \A n \in NodesOf(d) :
                       (conn.nodes[n].global \in conn'.globals)
                         = (conn.nodes[n].global \in conn.globals)]_vars

\* One connector was disconnected while another one stays connected
C6_Witness ==
    \E c, d \in Connectors :
        /\ c # d
        /\ conn.connected[d] /\ conn.root_outputs[d] # NoNode
        /\ ~conn.connected[c]
        /\ conn.handled[c] # <<>>
        /\ conn.handled[c][Len(conn.handled[c])] = EvDisconnected
        /\ conn.reglog[Len(conn.reglog)][1] = "remove"

\* C7: when Disconnected has been handled, every workspace of the
\* disconnected output is still registered in state.workspaces under its
\* name and is on the dummy output, and no workspace refers to an output
\* that is not in root.outputs.
C7_WorkspacesReparented ==
    [][\A c \in Connectors :
         (conn.pc[c] = "wait_inner"
            /\ \E i \in 1..Len(NewHandled(c)) : NewHandled(c)[i] = EvDisconnected) =>
           \A name \in WorkspaceNames :
               tree.workspaces[name] = conn.root_outputs[c] =>
                   /\ tree'.workspaces[name] = DummyNode
                   /\ name \in {conn'.nodes[DummyNode].workspaces[i] :
                                   i \in 1..Len(conn'.nodes[DummyNode].workspaces)}]_vars

(***************************************************************************)
(* zwp_linux_dmabuf_v1: the feedback of version 4                          *)
(***************************************************************************)

\* bounds of the dmabuf model
MaxFormats == 2
MaxModifiers == 2
MaxFeedbacks == 1
MaxFaultWrite == 2

\* the values of the u16 row counter of send_feedback
U16 == 65536

F_SEAL_GROW == "F_SEAL_GROW"
F_SEAL_SHRINK == "F_SEAL_SHRINK"
F_SEAL_WRITE == "F_SEAL_WRITE"

\* A format of the renderer: format k, with one modifier per flag
Format(k, implicit_external_only, flags) ==
    [drm |-> k,
     implicit_external_only |-> implicit_external_only,
     modifiers |-> [i \in 1..Len(flags) |-> [modifier |-> i, external_only |-> flags[i]]]]

\* The external_only flags of the modifiers of one format
ModifierFlags == UNION {[1..n -> BOOLEAN] : n \in 0..MaxModifiers}

\* The format tables of up to MaxFormats formats with up to MaxModifiers modifiers
SmallTables ==
    UNION {{[k \in 1..n |-> Format(k, t[k][1], t[k][2])] :
               t \in [1..n -> BOOLEAN \X ModifierFlags]} : n \in 0..MaxFormats}

\* A format table of one format with n modifiers
BigTable(n) == <<Format(1, FALSE, [i \in 1..n |-> FALSE])>>

\* The numbers of rows around the capacity of the u16 row counter
BigSizes == {U16 - 1, U16, U16 + 1}

\* The render contexts with the tables in tables
RenderCtxs(tables) ==
    {[present |-> TRUE, formats |-> t, supports_external_texture |-> s, dev |-> 1] :
        t \in tables, s \in BOOLEAN}

\* Is the format skipped?
FormatSkipped(render, format) ==
    format.implicit_external_only /\ ~render.supports_external_texture

ModifierSkipped_AnyExternalOnly(render, modifier) == modifier.external_only

\* Is the modifier skipped?
ModifierSkipped(render, modifier) ==
    modifier.external_only /\ ~render.supports_external_texture

\* The rows send_feedback writes for one format: format, padding, modifier
FormatRows(render, format) ==
    IF FormatSkipped(render, format) THEN <<>>
    ELSE LET kept == SelectSeq(format.modifiers, LAMBDA m : ~ModifierSkipped(render, m))
         IN [i \in 1..Len(kept) |->
                [format |-> format.drm, pad |-> 0, modifier |-> kept[i].modifier]]

\* The rows send_feedback writes for the first k formats, in iteration order
RECURSIVE TableRows(_, _)
TableRows(render, k) ==
    IF k = 0 THEN <<>>
    ELSE TableRows(render, k - 1) \o FormatRows(render, render.formats[k])

\* size += 1 on the u16 counter: the value a build without overflow checks
\* computes, and whether a build with overflow checks has panicked
Incr(size) ==
    IF size.value + 1 < U16
    THEN [size EXCEPT !.value = @ + 1]
    ELSE [value |-> (size.value + 1) % U16, overflowed |-> TRUE]

\* The counter after n more rows, counted one by one
RECURSIVE AddRows(_, _)
AddRows(size, n) ==
    IF n = 0 THEN size
    ELSE IF n = 1 THEN Incr(size)
    ELSE LET half == AddRows(size, n \div 2)
         IN IF half.value < 0 THEN half
            ELSE AddRows(half, n - (n \div 2))

\* The bytes in the memfd after w writes: each row is written as 4 bytes of
\* format, 4 bytes of padding and 8 bytes of modifier
BytesWritten(w) ==
    16 * (w \div 3) + (IF w % 3 = 0 THEN 0 ELSE IF w % 3 = 1 THEN 4 ELSE 8)

FeedbackEvents_NoDone(id, dev, fd, size) ==
    << [obj |-> id, ev |-> "main_device", device |-> dev],
       [obj |-> id, ev |-> "format_table", fd |-> fd, size |-> size * 16],
       [obj |-> id, ev |-> "tranche_target_device", device |-> dev],
       [obj |-> id, ev |-> "tranche_formats", indices |-> [i \in 1..size |-> i - 1]],
       [obj |-> id, ev |-> "tranche_flags", flags |-> 0],
       [obj |-> id, ev |-> "tranche_done"] >>

FeedbackEvents_FlagsAfterDone(id, dev, fd, size) ==
    << [obj |-> id, ev |-> "main_device", device |-> dev],
       [obj |-> id, ev |-> "format_table", fd |-> fd, size |-> size * 16],
       [obj |-> id, ev |-> "tranche_target_device", device |-> dev],
       [obj |-> id, ev |-> "tranche_formats", indices |-> [i \in 1..size |-> i - 1]],
       [obj |-> id, ev |-> "tranche_done"],
       [obj |-> id, ev |-> "tranche_flags", flags |-> 0],
       [obj |-> id, ev |-> "done"] >>

\* The events of a feedback, in the order send_feedback enqueues them
FeedbackEvents(id, dev, fd, size) ==
    << [obj |-> id, ev |-> "main_device", device |-> dev],
       [obj |-> id, ev |-> "format_table", fd |-> fd, size |-> size * 16],
       [obj |-> id, ev |-> "tranche_target_device", device |-> dev],
       [obj |-> id, ev |-> "tranche_formats", indices |-> [i \in 1..size |-> i - 1]],
       [obj |-> id, ev |-> "tranche_flags", flags |-> 0],
       [obj |-> id, ev |-> "tranche_done"],
       [obj |-> id, ev |-> "done"] >>

\* The faults a call can meet: none, a failing memfd_create, a failing
\* fcntl_add_seals, or the w-th write failing
NoFault == <<"none", 0>>
MemfdFault == <<"memfd_create", 0>>
SealFault == <<"seal", 0>>
WriteFault(w) == <<"write", w>>
Faults == {NoFault, MemfdFault, SealFault} \cup {WriteFault(w) : w \in 1..MaxFaultWrite}

\* ZwpLinuxDmabufV1::send_feedback, called for request req
send_feedback(req, feedback_id, fault) ==
    LET render == dma.render
        fd == Len(dma.fds) + 1
        rows == TableRows(render, Len(render.formats))
        write_fails == fault[1] = "write" /\ fault[2] <= 3 * Len(rows)
        size == AddRows([value |-> 0, overflowed |-> FALSE], Len(rows))
        \* on overflow the counter wraps or the handler panics, as the build decides
        panics == IF size.overflowed THEN BOOLEAN ELSE {FALSE}
        Log(result, ops, fdn) ==
            Append(dma.fblog, [req |-> req, id |-> feedback_id, fault |-> fault,
                               result |-> result, ops |-> ops, fd |-> fdn])
        Memfd(nrows, bytes, seals, closes) ==
            Append(dma.fds, [rows |-> SubSeq(rows, 1, nrows), size |-> bytes,
                             seals |-> seals, closes |-> closes, sent |-> FALSE])
        AllSeals == {F_SEAL_GROW, F_SEAL_SHRINK, F_SEAL_WRITE}
    IN
    /\ ~dma.panicked
    /\ Len(dma.fblog) < MaxFeedbacks
    /\ UNCHANGED <<requested, nrequests, reqlog, conn, tree, queue, deco>>
    /\ IF ~render.present
       THEN /\ dma' = [dma EXCEPT !.fblog = Log(<<"ClientError", "InvalidMethod">>, <<>>, 0)]
            /\ UNCHANGED <<objects, events>>
       ELSE IF fault = MemfdFault
       THEN /\ dma' = [dma EXCEPT !.fblog = Log(<<"ClientError", "Io">>, <<"memfd_create">>, 0)]
            /\ UNCHANGED <<objects, events>>
       ELSE IF write_fails
       THEN \* the File and the OwnedFd are both dropped: the descriptor is closed twice
            /\ dma' = [dma EXCEPT
                         !.fds = Memfd((fault[2] - 1) \div 3, BytesWritten(fault[2] - 1), {}, 2),
                         !.fblog = Log(<<"ClientError", "InvalidMethod">>,
                                       <<"memfd_create", "write">>, fd)]
            /\ UNCHANGED <<objects, events>>
       ELSE \E panic \in panics :
       IF panic
       THEN /\ dma' = [dma EXCEPT
                         !.fds = Memfd(U16, BytesWritten(3 * U16), {}, 0),
                         !.fblog = Log(<<"panic">>, <<"memfd_create", "write">>, fd),
                         !.panicked = TRUE]
            /\ UNCHANGED <<objects, events>>
       ELSE IF fault = SealFault
       THEN /\ dma' = [dma EXCEPT
                         !.fds = Memfd(Len(rows), BytesWritten(3 * Len(rows)), {}, 2),
                         !.fblog = Log(<<"ClientError", "InvalidMethod">>,
                                       <<"memfd_create", "write", "fcntl_add_seals">>, fd)]
            /\ UNCHANGED <<objects, events>>
       ELSE IF objects[feedback_id] # "none"
       THEN \* the File was forgotten: only the OwnedFd is dropped
            /\ dma' = [dma EXCEPT
                         !.fds = Memfd(Len(rows), BytesWritten(3 * Len(rows)), AllSeals, 1),
                         !.fblog = Log(<<"ClientError", "IdAlreadyInUse">>,
                                       <<"memfd_create", "write", "fcntl_add_seals",
                                         "add_client_obj">>, fd)]
            /\ UNCHANGED <<objects, events>>
       ELSE /\ dma' = [dma EXCEPT
                         !.fds = Memfd(Len(rows), BytesWritten(3 * Len(rows)), AllSeals, 0),
                         !.fblog = Log(Ok,
                                       <<"memfd_create", "write", "fcntl_add_seals",
                                         "add_client_obj", "main_device", "format_table",
                                         "tranche_target_device", "tranche_formats",
                                         "tranche_flags", "tranche_done", "done">>, fd)]
            /\ objects' = [objects EXCEPT ![feedback_id] = "zwp_linux_dmabuf_feedback_v1"]
            /\ events' = events \o FeedbackEvents(feedback_id, render.dev, fd, size.value)

\* ZwpLinuxDmabufV1::get_default_feedback
get_default_feedback(id, fault) == send_feedback("get_default_feedback", id, fault)

\* ZwpLinuxDmabufV1::get_surface_feedback
get_surface_feedback(id, fault) == send_feedback("get_surface_feedback", id, fault)

InitDma ==
    /\ objects = [i \in ObjectIds |-> IF i \in Surfaces THEN "wl_surface" ELSE "none"]
    /\ requested = [i \in ObjectIds |-> FALSE]
    /\ events = <<>>
    /\ nrequests = 0
    /\ reqlog = <<>>
    /\ deco = InitDecoState
    /\ queue = InitQueueState
    /\ conn = InitConnState
    /\ tree = InitTreeState
    /\ \E render \in {NoRenderCtx} \cup RenderCtxs(SmallTables) : dma = InitDmaState(render)

\* the ids the client asks feedback for: one in use and one that is free
FeedbackIds == Surfaces \cup {MaxObjectId}

NextDma ==
    \/ \E id \in FeedbackIds, fault \in Faults : get_default_feedback(id, fault)
    \/ \E id \in FeedbackIds, fault \in Faults : get_surface_feedback(id, fault)
    \/ Flush

SpecDma == InitDma /\ [][NextDma]_vars

\* The renderer has a format table around the capacity of the row counter
InitDmaBig ==
    /\ objects = [i \in ObjectIds |-> IF i \in Surfaces THEN "wl_surface" ELSE "none"]
    /\ requested = [i \in ObjectIds |-> FALSE]
    /\ events = <<>>
    /\ nrequests = 0
    /\ reqlog = <<>>
    /\ deco = InitDecoState
    /\ queue = InitQueueState
    /\ conn = InitConnState
    /\ tree = InitTreeState
    /\ \E render \in RenderCtxs({BigTable(n) : n \in BigSizes}) : dma = InitDmaState(render)

SpecDmaBig == InitDmaBig /\ [][NextDma]_vars

(***************************************************************************)
(* Properties of the dmabuf feedback                                       *)
(***************************************************************************)

\* This step handles one feedback request: the log grows by one entry
FeedbackStep == Len(dma'.fblog) = Len(dma.fblog) + 1

Feedback == dma'.fblog[Len(dma'.fblog)]

NewEvents == SubSeq(events', Len(events) + 1, Len(events'))

\* The position of op in the operations of a feedback request, 0 if absent
Position(ops, op) ==
    IF \E i \in 1..Len(ops) : ops[i] = op
    THEN CHOOSE i \in 1..Len(ops) : ops[i] = op
    ELSE 0

\* C8: a successful get_default_feedback or get_surface_feedback first seals
\* the memfd with GROW, SHRINK and WRITE and only then enqueues on the new
\* feedback object, in this order and with nothing in between, main_device,
\* format_table (with the memfd), tranche_target_device, tranche_formats,
\* tranche_flags = 0, tranche_done and done, each exactly once.
C8_SealedThenSevenEvents ==
    [][(FeedbackStep /\ Feedback.result = Ok) =>
          /\ SubSeq(events', 1, Len(events)) = events
          /\ [i \in 1..Len(NewEvents) |-> NewEvents[i].ev] =
                 <<"main_device", "format_table", "tranche_target_device",
                   "tranche_formats", "tranche_flags", "tranche_done", "done">>
          /\ \A i \in 1..Len(NewEvents) : NewEvents[i].obj = Feedback.id
          /\ NewEvents[2].fd = Feedback.fd
          /\ NewEvents[5].flags = 0
          /\ objects'[Feedback.id] = "zwp_linux_dmabuf_feedback_v1"
          /\ dma'.fds[Feedback.fd].seals = {F_SEAL_GROW, F_SEAL_SHRINK, F_SEAL_WRITE}
          /\ Position(Feedback.ops, "fcntl_add_seals") > 0
          /\ Position(Feedback.ops, "fcntl_add_seals") < Position(Feedback.ops, "main_device")]_vars

\* A feedback with at least two rows was sent and is on the queue
C8_Witness ==
    \E i \in 1..Len(dma.fblog) :
        /\ dma.fblog[i].result = Ok
        /\ Len(dma.fds[dma.fblog[i].fd].rows) >= 2
        /\ Len(events) = 7
        /\ events[7].ev = "done"

\* C9: for every format table, whatever its number of rows, the size
\* announced in format_table is 16 times the number of rows written into
\* the memfd, and tranche_formats lists the indices 0 .. rows-1 in order.
C9_SizeIsSixteenTimesRows ==
    \A i \in 1..Len(events) :
        events[i].ev = "format_table" =>
            LET rows == dma.fds[events[i].fd].rows
            IN /\ events[i].size = 16 * Len(rows)
               /\ dma.fds[events[i].fd].size = 16 * Len(rows)
               /\ events[i + 2].ev = "tranche_formats"
               /\ events[i + 2].indices = [j \in 1..Len(rows) |-> j - 1]

\* The (format, modifier) pairs of the renderer's table, by position
Pairs(render) ==
    UNION {{<<k, i>> : i \in 1..Len(render.formats[k].modifiers)} :
              k \in 1..Len(render.formats)}

\* The row of the pair at position p
RowOf(render, p) ==
    [format |-> render.formats[p[1]].drm, pad |-> 0,
     modifier |-> render.formats[p[1]].modifiers[p[2]].modifier]

\* The rows of the memfd of the feedback request e are exactly the rows of
\* the pairs in kept, one row for each
HasExactlyRows(e, kept) ==
    LET rows == dma.fds[e.fd].rows
    IN /\ {rows[j] : j \in 1..Len(rows)} = {RowOf(dma.render, p) : p \in kept}
       /\ Len(rows) = Cardinality(kept)

\* C10 as stated: the table has one row for every pair except the pairs
\* whose external-only flag is set while the renderer does not support
\* external textures.
C10_SkipsOnlyExternalOnlyPairs ==
    \A n \in 1..Len(dma.fblog) :
        dma.fblog[n].result = Ok =>
            HasExactlyRows(dma.fblog[n],
                {p \in Pairs(dma.render) :
                    ~(dma.render.formats[p[1]].modifiers[p[2]].external_only
                        /\ ~dma.render.supports_external_texture)})

\* C10 amended: the rows written into the memfd are one row for every pair
\* except, while the renderer does not support external textures, the pairs
\* whose external-only flag is set and all pairs of a format whose
\* implicit-external-only flag is set.
C10_SkipsExternalOnlyPairsAndFormats ==
    \A n \in 1..Len(dma.fblog) :
        dma.fblog[n].result = Ok =>
            HasExactlyRows(dma.fblog[n],
                {p \in Pairs(dma.render) :
                    dma.render.supports_external_texture
                    \/ (~dma.render.formats[p[1]].modifiers[p[2]].external_only
                         /\ ~dma.render.formats[p[1]].implicit_external_only)})

\* A feedback was sent for a table with a kept pair, a pair skipped for its
\* own flag and a pair skipped for the flag of its format
C10_Witness ==
    /\ \E n \in 1..Len(dma.fblog) : dma.fblog[n].result = Ok
    /\ ~dma.render.supports_external_texture
    /\ \E p, q, r \in Pairs(dma.render) :
          /\ ~dma.render.formats[p[1]].implicit_external_only
          /\ ~dma.render.formats[p[1]].modifiers[p[2]].external_only
          /\ ~dma.render.formats[q[1]].implicit_external_only
          /\ dma.render.formats[q[1]].modifiers[q[2]].external_only
          /\ dma.render.formats[r[1]].implicit_external_only
          /\ ~dma.render.formats[r[1]].modifiers[r[2]].external_only

(***************************************************************************)
(* zwp_linux_dmabuf_v1: binding the global                                 *)
(***************************************************************************)

MaxBinds == 1

\* Global::version of ZwpLinuxDmabufV1Global
VERSION == 4

MODIFIERS_SINCE_VERSION == 3
FEEDBACK_SINCE_VERSION == 4

\* The versions a client can bind
Versions == 1..VERSION

Advertises_Always(version) == TRUE

\* Does bind_ go on to advertise the formats for this version?
Advertises(version) == ~(version >= FEEDBACK_SINCE_VERSION)

SendsModifiers_Always(version) == TRUE

\* Does bind_ send the modifiers of a format for this version?
SendsModifiers(version) == version >= MODIFIERS_SINCE_VERSION

\* send_format
FormatEvent(id, drm) == [obj |-> id, ev |-> "format", format |-> drm]

\* send_modifier
ModifierEvent(id, drm, modifier) ==
    [obj |-> id, ev |-> "modifier", format |-> drm, modifier |-> modifier]

\* The events bind_ sends for one format that is not skipped
FormatAdvertisement(render, id, version, format) ==
    <<FormatEvent(id, format.drm)>> \o
    (IF SendsModifiers(version)
     THEN LET kept == SelectSeq(format.modifiers, LAMBDA m : ~ModifierSkipped(render, m))
          IN [i \in 1..Len(kept) |-> ModifierEvent(id, format.drm, kept[i].modifier)]
     ELSE <<>>)

RECURSIVE BindEvents(_, _, _, _)
\* The events bind_ sends for the formats from position k on
BindEvents(render, id, version, k) ==
    IF k > Len(render.formats) THEN <<>>
    ELSE (IF FormatSkipped(render, render.formats[k]) THEN <<>>
          ELSE FormatAdvertisement(render, id, version, render.formats[k]))
         \o BindEvents(render, id, version, k + 1)

\* ZwpLinuxDmabufV1Global::bind_
bind_(id, version) ==
    /\ ~dma.panicked
    /\ Len(dma.bindlog) < MaxBinds
    /\ IF objects[id] # "none"
       THEN /\ dma' = [dma EXCEPT !.bindlog = Append(@,
                          [id |-> id, version |-> version,
                           result |-> <<"ClientError", "IdAlreadyInUse">>])]
            /\ UNCHANGED <<objects, events>>
       ELSE /\ objects' = [objects EXCEPT ![id] = "zwp_linux_dmabuf_v1"]
            /\ dma' = [dma EXCEPT !.bindlog = Append(@,
                          [id |-> id, version |-> version, result |-> Ok])]
            /\ events' = events \o
                   (IF Advertises(version) /\ dma.render.present
                    THEN BindEvents(dma.render, id, version, 1)
                    ELSE <<>>)
    /\ UNCHANGED <<requested, nrequests, reqlog, conn, tree, queue, deco>>

NextBind ==
    \/ \E id \in ObjectIds, version \in Versions : bind_(id, version)
    \/ Flush

SpecBind == InitDma /\ [][NextBind]_vars

(***************************************************************************)
(* Properties of binding zwp_linux_dmabuf_v1                               *)
(***************************************************************************)

\* This step handles one bind: the log grows by one entry
BindStep == Len(dma'.bindlog) = Len(dma.bindlog) + 1

Bind == dma'.bindlog[Len(dma'.bindlog)]

\* The formats of the renderer's table that are not skipped, by position
KeptFormats(render) ==
    {k \in 1..Len(render.formats) :
        render.supports_external_texture \/ ~render.formats[k].implicit_external_only}

\* The pairs of the renderer's table that are not skipped, by position
KeptPairs(render) ==
    {p \in Pairs(render) :
        /\ p[1] \in KeptFormats(render)
        /\ render.supports_external_texture
             \/ ~render.formats[p[1]].modifiers[p[2]].external_only}

\* C11: binding zwp_linux_dmabuf_v1 with version >= 4 registers the object
\* and enqueues no format and no modifier event at bind time, whatever the
\* renderer's format table is.
C11_NothingAdvertisedFromVersionFour ==
    [][(BindStep /\ Bind.version >= 4) =>
          /\ events' = events
          /\ objects[Bind.id] = "none" =>
                /\ Bind.result = Ok
                /\ objects'[Bind.id] = "zwp_linux_dmabuf_v1"]_vars

\* Version 4 was bound while the renderer has a format that is not skipped
C11_Witness ==
    /\ \E i \in 1..Len(dma.bindlog) :
          /\ dma.bindlog[i].version = 4
          /\ dma.bindlog[i].result = Ok
          /\ objects[dma.bindlog[i].id] = "zwp_linux_dmabuf_v1"
    /\ KeptPairs(dma.render) # {}
    /\ events = <<>>

\* The events of kind ev among the events this step has enqueued
NewOfKind(ev) == SelectSeq(NewEvents, LAMBDA e : e.ev = ev)

\* This step has enqueued exactly one format event for every format that
\* is not skipped, on the bound object
FormatsAdvertised ==
    LET sent == NewOfKind("format")
    IN /\ {sent[i].format : i \in 1..Len(sent)} =
             {dma.render.formats[k].drm : k \in KeptFormats(dma.render)}
       /\ Len(sent) = Cardinality(KeptFormats(dma.render))
       /\ \A i \in 1..Len(NewEvents) : NewEvents[i].obj = Bind.id

\* This step has enqueued exactly one modifier event for every pair in pairs
ModifiersAdvertised(pairs) ==
    LET sent == NewOfKind("modifier")
    IN /\ {<<sent[i].format, sent[i].modifier>> : i \in 1..Len(sent)} =
             {<<dma.render.formats[p[1]].drm,
                dma.render.formats[p[1]].modifiers[p[2]].modifier>> : p \in pairs}
       /\ Len(sent) = Cardinality(pairs)

\* C12 as stated: binding with any version 1, 2 or 3 enqueues a format event
\* for every non-skipped format and a modifier event for every non-skipped
\* (format, modifier) pair.
C12_FormatsAndModifiersForVersionsOneToThree ==
    [][(BindStep /\ Bind.result = Ok /\ Bind.version \in 1..3) =>
          /\ FormatsAdvertised
          /\ ModifiersAdvertised(KeptPairs(dma.render))]_vars

\* C12 amended: binding with version 1, 2 or 3 enqueues a format event for
\* every non-skipped format; the modifier events, one for every non-skipped
\* pair of a non-skipped format, are enqueued only for version 3, and
\* versions 1 and 2 get no modifier event.
C12_ModifiersOnlyForVersionThree ==
    [][(BindStep /\ Bind.result = Ok /\ Bind.version \in 1..3) =>
          /\ FormatsAdvertised
          /\ ModifiersAdvertised(IF Bind.version = 3 THEN KeptPairs(dma.render) ELSE {})
          /\ Len(NewEvents) = Len(NewOfKind("format")) + Len(NewOfKind("modifier"))]_vars

\* Version 2 was bound for a table with a pair that is not skipped: the
\* format events are queued without a modifier event
C12_Witness ==
    /\ \E i \in 1..Len(dma.bindlog) :
          dma.bindlog[i].version = 2 /\ dma.bindlog[i].result = Ok
    /\ KeptPairs(dma.render) # {}
    /\ events # <<>>
    /\ \A i \in 1..Len(events) : events[i].ev = "format"

(***************************************************************************)
(* State: the tree of workspaces, containers and toplevels                 *)
(***************************************************************************)

\* Connector c is announced and connected with a mode of the given width:
\* handle, the Connected event of the backend and the first run of the handler
Connect(st, c, width) ==
    OuterLoop(ConfigCall([st EXCEPT !.pc[c] = "start", !.handler[c] = TRUE,
                                    !.connectors = @ \cup {c},
                                    !.pending[c] = <<EvConnected(width)>>,
                                    !.sent[c] = <<EvConnected(width)>>],
                         "new_connector", c), c)

\* The backend disconnects connector c and its handler has run
Disconnect(st, c) ==
    InnerLoop([st EXCEPT !.pending[c] = Append(@, EvDisconnected),
                         !.sent[c] = Append(@, EvDisconnected)], c)

RECURSIVE ConnectedUpTo(_)
\* The connectors 1 .. k are connected
ConnectedUpTo(k) ==
    IF k = 0 THEN InitConnState ELSE Connect(ConnectedUpTo(k - 1), k, MaxWidth)

\* The outputs the tree is built on: some connectors connected, or all of
\* them connected and the first one disconnected again
TreeConnStates ==
    {ConnectedUpTo(k) : k \in 0..MaxConnectors}
        \cup {Disconnect(ConnectedUpTo(MaxConnectors), 1)}

\* State::tree_changed, called for a change of the tree
TreeChanged ==
    /\ Running
    /\ tree.tree_changed_calls < MaxTreeChanged
    /\ tree' = tree_changed(tree)
    /\ UNCHANGED <<decoVars, queue, conn, dma>>

\* The seats handle the tree change at the next idle: the flag is reset
TurnEnd ==
    /\ tree.tree_changed_sent
    /\ tree' = [tree EXCEPT !.tree_changed_sent = FALSE,
                            !.tree_changed_calls = 0,
                            !.triggers = [s \in DOMAIN @ |-> 0]]
    /\ UNCHANGED <<decoVars, queue, conn, dma>>

\* The seat gives the keyboard focus to the mapped toplevel t
FocusToplevel(t) ==
    /\ Running
    /\ tree.seats > 0
    /\ tree.parent[t] # <<"none">>
    /\ tree.kb_focus # <<"toplevel", t>>
    /\ tree' = [tree EXCEPT !.kb_focus = <<"toplevel", t>>,
                            !.last_tiled = IF tree.parent[t][1] = "container" THEN t ELSE @]
    /\ UNCHANGED <<decoVars, queue, conn, dma>>

\* The workspace shown on the output of the seat
ActiveWorkspace == conn.nodes[tree.seat_output].workspace

\* WlSeatGlobal::last_tiled_keyboard_toplevel
last_tiled_keyboard_toplevel ==
    LET T == tree.last_tiled
    IN IF /\ T # NoToplevel
          /\ tree.parent[T][1] = "container"
          /\ tree.containers[tree.parent[T][2]].workspace = ActiveWorkspace
       THEN T
       ELSE NoToplevel

SiblingContainer_Never(prev) == NoContainer

\* prev.parent() and node_into_container: the container prev is a child of
SiblingContainer(prev) ==
    IF prev # NoToplevel /\ tree.parent[prev][1] = "container"
    THEN tree.parent[prev][2]
    ELSE NoContainer

add_child_after_Front(children, prev, node) == <<node>> \o children

\* ContainerNode::add_child_after
add_child_after(children, prev, node) ==
    LET i == CHOOSE j \in 1..Len(children) : children[j] = prev
    IN SubSeq(children, 1, i) \o <<node>> \o SubSeq(children, i + 1, Len(children))

\* The name OutputNode::ensure_workspace gives to a new workspace: the
\* first number that is not the name of a workspace
FreshName(t) ==
    ToString(CHOOSE i \in 1..(MaxConnectors + 2) :
                /\ t.workspaces[ToString(i)] = NoNode
                /\ \A j \in 1..(i - 1) : t.workspaces[ToString(j)] # NoNode)

\* OutputNode::ensure_workspace: the current workspace of the output, or a
\* new workspace that is shown on it
ensure_workspace(st, t, output) ==
    IF st.nodes[output].workspace # NoWorkspace
    THEN [conn |-> st, tree |-> t, ws |-> st.nodes[output].workspace]
    ELSE LET name == FreshName(t)
         IN [conn |-> output_show_workspace(
                          [st EXCEPT !.nodes[output].workspaces = Append(@, name)],
                          output, name),
             tree |-> [t EXCEPT !.workspaces[name] = output],
             ws |-> name]

\* The output map_tiled places the node on when it has no sibling: the
\* output of the seat, or the first output of root.outputs, or the dummy
map_tiled_output ==
    IF tree.seats > 0 THEN {tree.seat_output}
    ELSE IF RootNodes # {} THEN RootNodes
    ELSE {DummyNode}

\* State::map_tiled
map_tiled(node) ==
    /\ Running
    /\ tree.parent[node] = <<"none">>
    /\ LET prev == IF tree.seats > 0 THEN last_tiled_keyboard_toplevel ELSE NoToplevel
           container == SiblingContainer(prev)
       IN IF container # NoContainer
          THEN /\ tree' = [tree EXCEPT
                             !.containers[container].children = add_child_after(@, prev, node),
                             !.parent[node] = <<"container", container>>,
                             !.maplog = Append(@, [node |-> node, prev |-> prev,
                                                   container |-> container,
                                                   output |-> NoNode])]
               /\ UNCHANGED conn
          ELSE \E output \in map_tiled_output :
                 LET e == ensure_workspace(conn, tree, output)
                     workspace == e.ws
                     c == IF e.tree.ws_container[workspace] # NoContainer
                          THEN e.tree.ws_container[workspace]
                          ELSE Len(tree.containers) + 1
                 IN /\ conn' = e.conn
                    /\ tree' = [e.tree EXCEPT
                                  !.containers =
                                     IF e.tree.ws_container[workspace] # NoContainer
                                     THEN [@ EXCEPT ![c].children = Append(@, node)]
                                     ELSE Append(@, [workspace |-> workspace,
                                                     split |-> "Horizontal",
                                                     children |-> <<node>>]),
                                  !.ws_container[workspace] = c,
                                  !.parent[node] = <<"container", c>>,
                                  !.maplog = Append(@, [node |-> node, prev |-> NoToplevel,
                                                        container |-> c,
                                                        output |-> output])]
    /\ UNCHANGED <<decoVars, queue, dma>>

\* The names show_workspace is called with
ShownNames == WorkspaceNames \cup {ToString(1)}

\* The outputs are as in a state of TreeConnStates, there are seats many
\* seats and the tree is empty
InitTreeWith(seats) ==
    /\ objects = [i \in ObjectIds |-> IF i \in Surfaces THEN "wl_surface" ELSE "none"]
    /\ requested = [i \in ObjectIds |-> FALSE]
    /\ events = <<>>
    /\ nrequests = 0
    /\ reqlog = <<>>
    /\ deco = InitDecoState
    /\ queue = InitQueueState
    /\ conn \in TreeConnStates
    /\ tree = [InitTreeState EXCEPT !.seats = seats]
    /\ dma = InitDmaState(NoRenderCtx)

InitTree == \E n \in 0..MaxSeats : InitTreeWith(n)

\* The seat moves and shows workspaces, and the tree changes
NextTree ==
    \/ \E n \in DOMAIN conn.nodes : SeatMove(n)
    \/ \E name \in ShownNames : show_workspace(name)
    \/ TreeChanged
    \/ TurnEnd

SpecTree == InitTree /\ [][NextTree]_vars

\* The toplevel that is mapped next: node ids are allocated in order
NextToplevel == {t \in Toplevels : /\ tree.parent[t] = <<"none">>
                                   /\ \A m \in 1..(t - 1) : tree.parent[m] # <<"none">>}

InitMap == \E n \in {0, 1} : InitTreeWith(n)

\* Toplevels are mapped while the seat moves, shows workspaces and focuses
NextMap ==
    \/ \E n \in DOMAIN conn.nodes : SeatMove(n)
    \/ \E name \in ShownNames : show_workspace(name)
    \/ \E node \in NextToplevel : map_tiled(node)
    \/ \E t \in Toplevels : FocusToplevel(t)

SpecMap == InitMap /\ [][NextMap]_vars

(***************************************************************************)
(* Properties of tree_changed and show_workspace                           *)
(***************************************************************************)

\* C13: tree_changed is coalesced: however many times it is called between
\* two resets of tree_changed_sent, trigger_tree_changed of each seat has
\* been invoked exactly once if tree_changed was called at least once, and
\* a call after the first one in the turn notifies no seat.
C13_TreeChangedCoalesced ==
    /\ [](\A s \in 1..MaxSeats :
            tree.triggers[s] =
                IF s <= tree.seats /\ tree.tree_changed_calls > 0 THEN 1 ELSE 0)
    /\ [][(tree.tree_changed_calls >= 1
             /\ tree'.tree_changed_calls = tree.tree_changed_calls + 1) =>
            tree'.triggers = tree.triggers]_vars

\* tree_changed was called three times in one turn with two seats
C13_Witness ==
    /\ tree.seats = 2
    /\ tree.tree_changed_calls = 3
    /\ tree.triggers[1] = 1
    /\ tree.triggers[2] = 1

\* This step is a call of show_workspace: the log grows by one entry
ShowStep == Len(tree'.showlog) = Len(tree.showlog) + 1

Show == tree'.showlog[Len(tree'.showlog)]

\* The names in the workspace list of output node n
WorkspacesOn(st, n) == {st.nodes[n].workspaces[i] : i \in 1..Len(st.nodes[n].workspaces)}

\* C17: show_workspace for a name without a workspace, while the seat is on
\* the dummy output, changes nothing: no workspace is created,
\* state.workspaces, the workspace list and the current workspace of every
\* output are unchanged, and tree_changed is not raised.
C17_RefusedOnDummyOutput ==
    [][(ShowStep /\ ~Show.existed /\ conn.nodes[Show.seat_output].is_dummy) =>
          /\ Show.result = "refused"
          /\ conn' = conn
          /\ tree' = [tree EXCEPT !.showlog = tree'.showlog]]_vars

\* show_workspace was refused on the dummy output while an output is
\* connected and a turn with a tree change is open
C17_Witness ==
    /\ \E i \in 1..Len(tree.showlog) :
          /\ tree.showlog[i].result = "refused"
          /\ tree.workspaces[tree.showlog[i].name] = NoNode
    /\ RootNodes # {}
    /\ conn.nodes[DummyNode].workspaces = <<>>

\* C18: after show_workspace for the name of an existing workspace, called
\* for a seat on a connected output, the workspace is on the output of the
\* seat and is the current workspace of that output, and its last-active
\* child has the focus of the seat.
C18_ExistingWorkspaceOnSeatOutput ==
    [][(ShowStep /\ Show.existed /\ Show.seat_output \in RootNodes) =>
          /\ tree'.workspaces[Show.name] = tree'.seat_output
          /\ Show.name \in WorkspacesOn(conn', tree'.seat_output)
          /\ conn'.nodes[tree'.seat_output].workspace = Show.name
          /\ tree'.kb_focus = <<"last_active_child", Show.name>>]_vars

\* The outputs whose workspace list holds the name
OutputsOf(name) == {n \in DOMAIN conn.nodes : name \in WorkspacesOn(conn, n)}

\* The number of workspaces with the name, over all outputs
CountOf(name) ==
    Cardinality(UNION {{<<n, i>> : i \in {j \in 1..Len(conn.nodes[n].workspaces) :
                                              conn.nodes[n].workspaces[j] = name}} :
                          n \in DOMAIN conn.nodes})

\* C19: after any sequence of show_workspace calls there is at most one
\* workspace per name; a call for an existing name creates no workspace,
\* and a call for a missing name from a seat on a real output creates
\* exactly one workspace with that name on the output of the seat, appends
\* it to the workspace list of that output, shows it and registers it in
\* state.workspaces.
C19_OneWorkspacePerName ==
    /\ [](\A name \in Names :
            /\ CountOf(name) <= 1
            /\ (tree.workspaces[name] # NoNode) = (CountOf(name) = 1)
            /\ tree.workspaces[name] # NoNode => OutputsOf(name) = {tree.workspaces[name]})
    /\ [][ShowStep =>
            LET o == Show.seat_output
            IN /\ Show.existed =>
                    /\ tree'.workspaces = tree.workspaces
                    /\ \A n \in DOMAIN conn.nodes :
                          conn'.nodes[n].workspaces = conn.nodes[n].workspaces
               /\ (~Show.existed /\ ~conn.nodes[o].is_dummy) =>
                    /\ tree'.workspaces = [tree.workspaces EXCEPT ![Show.name] = o]
                    /\ conn'.nodes[o].workspaces = Append(conn.nodes[o].workspaces, Show.name)
                    /\ conn'.nodes[o].workspace = Show.name
                    /\ \A n \in DOMAIN conn.nodes \ {o} : conn'.nodes[n] = conn.nodes[n]]_vars

\* A workspace was created on a real output and then shown again by name
\* from another output
C19_Witness ==
    /\ Len(tree.showlog) = 2
    /\ tree.showlog[1].name = tree.showlog[2].name
    /\ tree.showlog[1].result = "created"
    /\ tree.showlog[2].existed
    /\ tree.showlog[2].seat_output # tree.showlog[1].seat_output
    /\ CountOf(tree.showlog[1].name) = 1

(***************************************************************************)
(* Properties of map_tiled                                                 *)
(***************************************************************************)

\* This step is a call of map_tiled: the log grows by one entry
MapStep == Len(tree'.maplog) = Len(tree.maplog) + 1

Map == tree'.maplog[Len(tree'.maplog)]

\* The positions of node among the children of container c
PositionsIn(t, c, node) ==
    {i \in 1..Len(t.containers[c].children) : t.containers[c].children[i] = node}

\* Every mapped toplevel is a child, once, of exactly the container that is
\* its parent
AttachedToOneContainer ==
    \A node \in Toplevels :
        IF tree.parent[node] = <<"none">>
        THEN \A c \in 1..Len(tree.containers) : PositionsIn(tree, c, node) = {}
        ELSE /\ tree.parent[node][1] = "container"
             /\ tree.parent[node][2] \in 1..Len(tree.containers)
             /\ \A c \in 1..Len(tree.containers) :
                   Cardinality(PositionsIn(tree, c, node)) =
                       IF c = tree.parent[node][2] THEN 1 ELSE 0

\* The container the node was attached to is the container of the sibling,
\* the root container the workspace had, or a new Horizontal root container
\* that holds only the node
ContainerOfMap ==
    LET c == Map.container
        ws == tree'.containers[c].workspace
    IN \/ /\ Map.prev # NoToplevel
          /\ tree.parent[Map.prev] = <<"container", c>>
          /\ c <= Len(tree.containers)
       \/ /\ Map.prev = NoToplevel
          /\ c <= Len(tree.containers)
          /\ tree.ws_container[ws] = c
          /\ conn'.nodes[Map.output].workspace = ws
       \/ /\ Map.prev = NoToplevel
          /\ c = Len(tree.containers) + 1
          /\ Len(tree'.containers) = c
          /\ tree.ws_container[ws] = NoContainer
          /\ tree'.ws_container[ws] = c
          /\ conn'.nodes[Map.output].workspace = ws
          /\ tree'.containers[c].split = "Horizontal"
          /\ tree'.containers[c].children = <<Map.node>>

\* C14: after any sequence of map_tiled calls every mapped node is attached
\* to exactly one container, which is the container of an existing sibling,
\* the existing root container of the workspace or a new Horizontal root
\* container; the first toplevel mapped on a fresh workspace creates a
\* Horizontal root container that holds only itself, and the second one is
\* added to the same container, whose children are then the two nodes in
\* map order.
C14_MappedInOneContainer ==
    /\ []AttachedToOneContainer
    /\ [][MapStep =>
            LET c == Map.container
                ws == tree'.containers[c].workspace
            IN /\ ContainerOfMap
               /\ tree'.parent[Map.node] = <<"container", c>>
               /\ \A d \in 1..Len(tree.containers) :
                     d # c => tree'.containers[d] = tree.containers[d]
               /\ tree.ws_container[ws] = NoContainer =>
                     /\ tree'.ws_container[ws] = c
                     /\ tree'.containers[c] =
                           [workspace |-> ws, split |-> "Horizontal",
                            children |-> <<Map.node>>]
               /\ (/\ tree.ws_container[ws] # NoContainer
                   /\ Len(tree.containers[tree.ws_container[ws]].children) = 1) =>
                     /\ c = tree.ws_container[ws]
                     /\ tree'.containers[c].children =
                           <<tree.containers[c].children[1], Map.node>>]_vars

\* Two toplevels were mapped on a fresh workspace: its Horizontal root
\* container holds the two in map order
C14_Witness ==
    /\ Len(tree.maplog) = 2
    /\ tree.maplog[1].container = tree.maplog[2].container
    /\ tree.containers[tree.maplog[1].container].split = "Horizontal"
    /\ tree.containers[tree.maplog[1].container].children =
          <<tree.maplog[1].node, tree.maplog[2].node>>

\* The most recently active seat has a last tiled keyboard toplevel on a
\* container in the active workspace
HasTiledSibling ==
    /\ tree.seats > 0
    /\ tree.last_tiled # NoToplevel
    /\ tree.parent[tree.last_tiled][1] = "container"
    /\ tree.containers[tree.parent[tree.last_tiled][2]].workspace =
          conn.nodes[tree.seat_output].workspace

\* C15: map_tiled inserts the new node as the immediate next sibling of the
\* last tiled keyboard toplevel T of the most recently active seat, in the
\* container C of T, if and only if that seat has such a T on a container
\* in the active workspace; then nothing else is modified, no workspace and
\* no container is created; otherwise the node is placed through the
\* workspace of an output.
C15_NextToLastTiledToplevel ==
    [][MapStep =>
          IF HasTiledSibling
          THEN LET T == tree.last_tiled
                   C == tree.parent[T][2]
                   i == CHOOSE j \in 1..Len(tree.containers[C].children) :
                            tree.containers[C].children[j] = T
               IN /\ Map.prev = T
                  /\ Map.container = C
                  /\ tree'.containers[C].children[i] = T
                  /\ tree'.containers[C].children[i + 1] = Map.node
                  /\ Len(tree'.containers[C].children) = Len(tree.containers[C].children) + 1
                  /\ conn' = conn
                  /\ tree' = [tree EXCEPT !.containers[C].children = tree'.containers[C].children,
                                          !.parent[Map.node] = <<"container", C>>,
                                          !.maplog = tree'.maplog]
          ELSE /\ Map.prev = NoToplevel
               /\ Map.output \in DOMAIN conn.nodes
               /\ conn'.nodes[Map.output].workspace = tree'.containers[Map.container].workspace
               /\ LET ch == tree'.containers[Map.container].children
                  IN ch[Len(ch)] = Map.node]_vars

\* A toplevel was inserted between two toplevels, right after the one that
\* had the keyboard focus last
C15_Witness ==
    \E n \in 1..Len(tree.maplog) :
        LET m == tree.maplog[n]
            ch == tree.containers[m.container].children
        IN /\ m.prev # NoToplevel
           /\ Len(ch) = 3
           /\ ch[1] = m.prev
           /\ ch[2] = m.node

\* C16: when map_tiled does not insert next to a sibling, the node is
\* placed on the output of the most recently active seat, or on the first
\* known output, else on the dummy output: it is placed on the workspace
\* of the dummy output only when no real output is known.
C16_DummyOnlyWithoutOutputs ==
    [][(MapStep /\ Map.prev = NoToplevel) =>
          /\ Map.output \in DOMAIN conn.nodes
          /\ conn.nodes[Map.output].is_dummy => RootNodes = {}]_vars

(***************************************************************************)
(* State::map_floating                                                     *)
(***************************************************************************)

\* bounds of the floats
MaxFloatSize == 4
MaxOutputWidth == 14
MaxOutputHeight == 31
MaxOutputX == 5

\* Theme::default
title_height == 17
border_width == 4

I32_MAX == 2147483647
I32_MIN == -I32_MAX - 1

\* The sizes a toplevel asks for: small ones and the ones next to the
\* largest i32
FloatSizes ==
    (0..MaxFloatSize) \cup {I32_MAX - 2 * border_width - title_height,
                            I32_MAX - 2 * border_width, I32_MAX}

\* The rectangles of the outputs, Rect as x1, y1, width, height
OutputRects ==
    {[x1 |-> x, y1 |-> 0, width |-> w, height |-> h] :
        x \in {0, MaxOutputX},
        w \in {0} \cup ((2 * border_width - 1)..MaxOutputWidth),
        h \in {0} \cup ((2 * border_width + title_height - 1)..MaxOutputHeight)}

\* a + b in i32: the value the wrapping addition yields and whether the
\* addition overflows
Add32(a, b) ==
    IF b >= 0 /\ a > I32_MAX - b
    THEN [v |-> (a - I32_MAX - 1) + (b - I32_MAX - 1), overflow |-> TRUE]
    ELSE IF b < 0 /\ a < I32_MIN - b
    THEN [v |-> (a + I32_MAX + 1) + (b + I32_MAX + 1), overflow |-> TRUE]
    ELSE [v |-> a + b, overflow |-> FALSE]

\* a - b in i32
Sub32(a, b) ==
    IF b = I32_MIN
    THEN IF a < 0 THEN [v |-> (a + I32_MAX) + 1, overflow |-> FALSE]
         ELSE [v |-> a + I32_MIN, overflow |-> TRUE]
    ELSE Add32(a, -b)

\* The division of an i32 by 2, which truncates towards zero
Half(x) ==
    IF x >= 0 THEN x \div 2
    ELSE IF x = I32_MIN THEN -((I32_MAX \div 2) + 1)
    ELSE -((-x) \div 2)

\* Rect::new_sized: None for a negative size or a corner out of range
new_sized(x1, y1, width, height) ==
    IF width < 0 \/ height < 0 \/ Add32(x1, width).overflow \/ Add32(y1, height).overflow
    THEN <<"None">>
    ELSE <<"Some", [x1 |-> x1, y1 |-> y1, width |-> width, height |-> height]>>

\* One axis of the position of map_floating: the size with the decoration
\* added, centered in or clamped to the output
FloatAxis(size, extra, o1, osize) ==
    LET s1 == Add32(size, extra)
        centered == s1.v < osize
        diff == Sub32(osize, s1.v)
        p1 == Add32(o1, Half(diff.v))
    IN [pos |-> IF centered THEN p1.v ELSE o1,
        size |-> IF centered THEN s1.v ELSE osize,
        overflow |-> s1.overflow \/ (centered /\ (diff.overflow \/ p1.overflow))]

\* The position map_floating computes, or the panic of an overflow check or
\* of the unwrap
FloatPosition(width, height, output_rect, overflow_checks) ==
    LET x == FloatAxis(width, 2 * border_width, output_rect.x1, output_rect.width)
        y == FloatAxis(height, 2 * border_width + title_height,
                       output_rect.y1, output_rect.height)
        rect == new_sized(x.pos, y.pos, x.size, y.size)
    IN IF overflow_checks /\ (x.overflow \/ y.overflow)
       THEN <<"panic", "overflow">>
       ELSE IF rect = <<"None">> THEN <<"panic", "unwrap">>
       ELSE rect

\* map_floating has panicked, which ends the compositor
FloatPanicked == \E i \in 1..Len(tree.floats) : tree.floats[i].position[1] = "panic"

\* State::map_floating of the size and for the workspace of float_input
map_floating(node) ==
    /\ Running
    /\ ~FloatPanicked
    /\ tree.parent[node] = <<"none">>
    /\ LET in == tree.float_input
           position == FloatPosition(in.width, in.height, in.output_rect,
                                     in.overflow_checks)
       IN tree' = [tree EXCEPT
                     !.parent[node] = IF position[1] = "Some" THEN <<"float">> ELSE @,
                     !.floats = Append(@, [node |-> node, width |-> in.width,
                                           height |-> in.height,
                                           output_rect |-> in.output_rect,
                                           position |-> position])]
    /\ UNCHANGED <<decoVars, queue, conn, dma>>

\* The toplevels ask for a size of FloatSizes on an output of OutputRects
InitFloat ==
    /\ objects = [i \in ObjectIds |-> IF i \in Surfaces THEN "wl_surface" ELSE "none"]
    /\ requested = [i \in ObjectIds |-> FALSE]
    /\ events = <<>>
    /\ nrequests = 0
    /\ reqlog = <<>>
    /\ deco = InitDecoState
    /\ queue = InitQueueState
    /\ conn = ConnectedUpTo(1)
    /\ \E width \in FloatSizes, height \in FloatSizes, output_rect \in OutputRects,
          overflow_checks \in BOOLEAN :
          tree = [InitTreeState EXCEPT
                    !.float_input = [width |-> width, height |-> height,
                                     output_rect |-> output_rect,
                                     overflow_checks |-> overflow_checks]]
    /\ dma = InitDmaState(NoRenderCtx)

NextFloat == \E node \in NextToplevel : map_floating(node)

SpecFloat == InitFloat /\ [][NextFloat]_vars

(***************************************************************************)
(* Properties of map_floating                                              *)
(***************************************************************************)

\* The start and the size of a float on one axis of the output, for the
\* size asked for and the decoration added to it: the float is centered
\* where it is smaller than the output and starts at the origin where it
\* is clamped
AxisAsClaimed(pos, size, asked, extra, o1, osize) ==
    LET smaller == asked < osize - extra
    IN /\ size = IF smaller THEN asked + extra ELSE osize
       /\ pos = IF smaller THEN o1 + ((osize - (asked + extra)) \div 2) ELSE o1
       /\ o1 <= pos
       /\ pos + size <= o1 + osize

\* C20: for all w, h >= 0 and every output rectangle, map_floating builds
\* the rectangle of the float without failing, with the width
\* min(w + 2 * border_width, output width) and the height
\* min(h + 2 * border_width + title_height, output height), centered on
\* each axis where it is smaller than the output and at the origin of the
\* output where it was clamped, inside the output rectangle.
C20_FloatCenteredAndClamped ==
    \A i \in 1..Len(tree.floats) :
        LET f == tree.floats[i]
            o == f.output_rect
        IN /\ f.position[1] = "Some"
           /\ AxisAsClaimed(f.position[2].x1, f.position[2].width,
                            f.width, 2 * border_width, o.x1, o.width)
           /\ AxisAsClaimed(f.position[2].y1, f.position[2].height,
                            f.height, 2 * border_width + title_height, o.y1, o.height)

(***************************************************************************)
(* More properties of the connector lifecycle                              *)
(***************************************************************************)

\* The output nodes that were created for a connector
ConnectedNodes == {n \in DOMAIN conn.nodes : ~conn.nodes[n].is_dummy}

\* C21: on Connected, the horizontal position of the new wl_output global
\* is max(0, the largest x2 of the outputs registered in the root at that
\* moment): it is never negative and never left of the right edge of an
\* output registered at that moment, for every order of connects, mode
\* changes and disconnects of the other connectors.
C21_RightOfRegisteredOutputs ==
    \A n \in ConnectedNodes :
        LET node == conn.nodes[n]
        IN /\ node.x1 >= 0
           /\ \A x2 \in node.seen_x2 : node.x1 >= x2
           /\ node.x1 \in node.seen_x2 \cup {0}

\* An output was connected right of an output whose mode had changed
C21_Witness ==
    /\ \E n \in ConnectedNodes : conn.nodes[n].x1 = MaxWidth /\ conn.nodes[n].seen_x2 = {MaxWidth}
    /\ \E c \in Connectors, i \in 1..MaxBackendEvents :
          i <= Len(conn.handled[c]) /\ conn.handled[c][i].type = "ModeChanged"

\* C22: when Connected is handled, the OutputNode is registered with the
\* root before the configuration is notified through connector_connected:
\* the callback observes the new output in root.outputs.
C22_RegisteredBeforeNotified ==
    \A i \in 1..Len(conn.cfglog) :
        conn.cfglog[i].cb = "connector_connected" => conn.cfglog[i].in_root

\* C23: on Removed the handler drains the pending events of the connector
\* and then deletes the ConnectorData: when the handler has finished, no
\* event of the connector is left pending, del_connector has been called
\* exactly once, the stored handler is cleared and state.connectors has no
\* entry for the connector.
C23_RemovedDrainsAndDeletes ==
    [][\A c \in Connectors :
          (conn.pc[c] # "done" /\ conn'.pc[c] = "done") =>
              /\ conn'.pending[c] = <<>>
              /\ Cardinality({i \in 1..Len(conn'.cfglog) :
                                 /\ conn'.cfglog[i].cb = "del_connector"
                                 /\ conn'.cfglog[i].connector = c}) = 1
              /\ ~conn'.handler[c]
              /\ c \notin conn'.connectors]_vars

\* the configuration callbacks made for connector c, in order
CallbacksOf(c) == SelectSeq(conn.cfglog, LAMBDA e : e.connector = c)

\* how many events of one type the handler of connector c has handled
HandledOfType(c, type) ==
    Cardinality({i \in 1..Len(conn.handled[c]) : conn.handled[c][i].type = type})

CallbacksNamed(c, cb) ==
    Cardinality({i \in 1..Len(CallbacksOf(c)) : CallbacksOf(c)[i].cb = cb})

QueuedBeforeRemoved(c, i) ==
    /\ i <= Len(conn.sent[c])
    /\ \A j \in 1..(i - 1) : conn.sent[c][j].type # "Removed"

\* Every event queued so far before a Removed has been handled
AllHandled ==
    \A c \in Connectors : \A i \in 1..Len(conn.sent[c]) :
        QueuedBeforeRemoved(c, i) => Len(conn.handled[c]) >= i

\* The handler of connector c is suspended in one of its event loops
Suspended(c) == conn.pc[c] \in {"wait_outer", "wait_inner"}

\* C31: no connector event is dropped or reordered and no wakeup is lost:
\* the events handled and the events pending are the events queued, in
\* order; a handler that is suspended while an event is pending has been
\* woken; and with the handlers scheduled fairly, every event queued before
\* Removed is eventually handled, as long as no handler has stopped the
\* compositor on unreachable!(): again and again all the events queued so
\* far are handled, and an event that is handled stays handled.
C31_NoEventLostNoWakeupLost ==
    /\ [](\A c \in Connectors :
            /\ conn.sent[c] = conn.handled[c] \o conn.pending[c]
            /\ (Suspended(c) /\ conn.pending[c] # <<>>) => conn.ae[c])
    /\ []<>(AllHandled \/ ~Running)

\* A connector was connected, disconnected and connected again, and all
\* three events are handled: the handler waits in handle_connected
C31_Witness ==
    \E c \in Connectors :
        /\ conn.pc[c] = "wait_inner"
        /\ conn.handled[c] = conn.sent[c]
        /\ [i \in 1..Len(conn.handled[c]) |-> conn.handled[c][i].type] =
              <<"Connected", "Disconnected", "Connected">>

(***************************************************************************)
(* The memfd and the outcome of send_feedback                              *)
(***************************************************************************)

\* the feedback requests that got as far as creating a memfd and returned
WithMemfd == {i \in 1..Len(dma.fblog) : dma.fblog[i].fd # 0 /\ dma.fblog[i].result # <<"panic">>}

\* C27: the memfd of a feedback request is closed at most once on every
\* path: after a success it is owned by the format_table event alone and
\* closed only when that event has been sent; on every error path (failed
\* write, failed seal, id in use) it is closed exactly once, never twice
\* and never leaked.
C27_MemfdClosedOnce ==
    \A i \in WithMemfd :
        LET memfd == dma.fds[dma.fblog[i].fd]
        IN IF dma.fblog[i].result = Ok
           THEN memfd.closes = (IF memfd.sent THEN 1 ELSE 0)
           ELSE memfd.closes = 1

\* C28: send_feedback is all-or-nothing on the event queue: when it fails,
\* none of the seven feedback events is enqueued and no feedback object is
\* registered; when it succeeds, the object is registered and all seven
\* events are enqueued.
C28_FeedbackAllOrNothing ==
    [][FeedbackStep =>
          IF Feedback.result = Ok
          THEN /\ objects[Feedback.id] = "none"
               /\ objects' = [objects EXCEPT ![Feedback.id] = "zwp_linux_dmabuf_feedback_v1"]
               /\ SubSeq(events', 1, Len(events)) = events
               /\ Len(NewEvents) = 7
               /\ {NewEvents[i].ev : i \in 1..Len(NewEvents)} =
                      {"main_device", "format_table", "tranche_target_device",
                       "tranche_formats", "tranche_flags", "tranche_done", "done"}
          ELSE /\ events' = events
               /\ objects' = objects]_vars

\* A get_surface_feedback has succeeded: its object is registered and its
\* seven events are the queue
C28_Witness ==
    /\ Len(dma.fblog) = 1
    /\ dma.fblog[1].req = "get_surface_feedback"
    /\ dma.fblog[1].result = Ok
    /\ objects[dma.fblog[1].id] = "zwp_linux_dmabuf_feedback_v1"
    /\ Len(events) = 7
    /\ \A i \in 1..7 : events[i].obj = dma.fblog[1].id

(***************************************************************************)
(* zxdg_toplevel_decoration_v1                                             *)
(***************************************************************************)

CLIENT_SIDE == 1
SERVER_SIDE == 2

\* bounds of the xdg decoration model
MaxXdgObjects == 2
MaxXdgRequests == 3

\* the decoration objects the client has created, one per toplevel
XdgIds == 1..MaxXdgObjects
XdgKind == "zxdg_toplevel_decoration_v1"
XdgModes == {CLIENT_SIDE, SERVER_SIDE}

\* ZxdgToplevelDecorationV1.toplevel: the xdg_toplevel object of decoration id
ToplevelOf(id) == MaxXdgObjects + id

MsgParserError == <<"MsgParserError">>

\* the Configure event of send_configure
ConfigureEvent(id, mode) == [obj |-> id, ev |-> "configure", mode |-> mode]

\* XdgToplevel::send_current_configure: the current configure of the toplevel
ToplevelConfigure(t) == [obj |-> t, ev |-> "toplevel_configure"]

\* the mode do_send_configure reads from the toplevel
DecorationMode(d) == IF d = "Client" THEN CLIENT_SIDE ELSE SERVER_SIDE

do_send_configure_ToplevelFirst(q, id) ==
    ClientEvent(ClientEvent(q, ToplevelConfigure(ToplevelOf(id))),
                ConfigureEvent(id, DecorationMode(deco.decoration[id])))

\* ZxdgToplevelDecorationV1::do_send_configure, on the queue q
do_send_configure(q, id) ==
    ClientEvent(ClientEvent(q, ConfigureEvent(id, DecorationMode(deco.decoration[id]))),
                ToplevelConfigure(ToplevelOf(id)))

\* a request on decoration object id arrives
XdgRequest(id) ==
    /\ objects[id] = XdgKind
    /\ nrequests < MaxXdgRequests
    /\ nrequests' = nrequests + 1
    /\ UNCHANGED <<requested, reqlog, conn, tree, queue, dma>>

\* ZxdgToplevelDecorationV1::set_mode; parses: the message is well-formed
set_mode(id, mode, parses) ==
    /\ XdgRequest(id)
    /\ IF parses
       THEN /\ events' = do_send_configure(events, id)
            /\ deco' = Logged(deco, Call("set_mode", id, mode, Ok))
       ELSE /\ deco' = Logged(deco, Call("set_mode", id, mode, MsgParserError))
            /\ UNCHANGED events
    /\ UNCHANGED objects

\* ZxdgToplevelDecorationV1::unset_mode
unset_mode(id, parses) ==
    /\ XdgRequest(id)
    /\ IF parses
       THEN /\ events' = do_send_configure(events, id)
            /\ deco' = Logged(deco, Call("unset_mode", id, 0, Ok))
       ELSE /\ deco' = Logged(deco, Call("unset_mode", id, 0, MsgParserError))
            /\ UNCHANGED events
    /\ UNCHANGED objects

\* ZxdgToplevelDecorationV1::destroy
destroy(id, parses) ==
    /\ XdgRequest(id)
    /\ IF parses
       THEN /\ objects' = [objects EXCEPT ![id] = "none"]
            /\ deco' = Logged(deco, Call("destroy", id, 0, Ok))
       ELSE /\ deco' = Logged(deco, Call("destroy", id, 0, MsgParserError))
            /\ UNCHANGED objects
    /\ UNCHANGED events

InitXdg ==
    /\ objects = [i \in XdgIds |-> XdgKind]
    /\ requested = [i \in XdgIds |-> FALSE]
    /\ events = <<>>
    /\ nrequests = 0
    /\ reqlog = <<>>
    /\ conn = InitConnState
    /\ tree = InitTreeState
    /\ dma = InitDmaState(NoRenderCtx)
    /\ \E d \in [XdgIds -> Decorations] : deco = [InitDecoState EXCEPT !.decoration = d]
    /\ queue = InitQueueState

NextXdg ==
    \/ \E id \in XdgIds, m \in XdgModes, parses \in BOOLEAN : set_mode(id, m, parses)
    \/ \E id \in XdgIds, parses \in BOOLEAN : unset_mode(id, parses)
    \/ \E id \in XdgIds, parses \in BOOLEAN : destroy(id, parses)

SpecXdg == InitXdg /\ [][NextXdg]_vars

\* the request this step has handled, as logged in deco
Called == deco'.last

\* This step handles a set_mode or an unset_mode request
XdgModeStep ==
    /\ nrequests' = nrequests + 1
    /\ Called # <<>>
    /\ Called.req \in {"set_mode", "unset_mode"}

\* C24: each set_mode and each unset_mode request on a
\* zxdg_toplevel_decoration_v1 object enqueues exactly one decoration
\* configure event carrying the mode chosen for the toplevel, immediately
\* followed by the current configure of the toplevel, in that order.
C24_ConfigureThenToplevelConfigure ==
    [][(XdgModeStep /\ Called.result = Ok) =>
          events' = events \o
                    << ConfigureEvent(Called.obj,
                                      IF deco.decoration[Called.obj] = "Client"
                                      THEN CLIENT_SIDE ELSE SERVER_SIDE),
                       ToplevelConfigure(ToplevelOf(Called.obj)) >>]_vars

\* An unset_mode and then a set_mode(CLIENT_SIDE) were handled on an object
\* whose toplevel is decorated by the server: two pairs are on the queue
C24_Witness ==
    \E id \in XdgIds :
        /\ deco.last # <<>>
        /\ deco.last = Call("set_mode", id, CLIENT_SIDE, Ok)
        /\ deco.decoration[id] = "Server"
        /\ events = << ConfigureEvent(id, SERVER_SIDE), ToplevelConfigure(ToplevelOf(id)),
                       ConfigureEvent(id, SERVER_SIDE), ToplevelConfigure(ToplevelOf(id)) >>

(***************************************************************************)
(* Properties of the decoration manager                                    *)
(***************************************************************************)

\* This step handles a bind of the decoration manager global
ManagerBindStep == deco'.nbinds = deco.nbinds + 1

\* This step handles a create request of the manager
CreateStep == nrequests' = nrequests + 1 /\ Called # <<>> /\ Called.req = "create"

\* the events of object id on the queue q
EventsOf(q, id) == SelectSeq(q, LAMBDA e : e.obj = id)

\* C25: binding org_kde_kwin_server_decoration_manager registers the
\* manager object and immediately enqueues exactly one default_mode event
\* carrying SERVER, the first event on that object; if registering the
\* object fails, no event is enqueued.
C25_DefaultModeOnBind ==
    [][ManagerBindStep =>
          IF Called.result = Ok
          THEN /\ objects[Called.obj] = "none"
               /\ objects' = [objects EXCEPT ![Called.obj] = ManagerKind]
               /\ events' = Append(events, DefaultModeEvent(Called.obj, SERVER))
               /\ EventsOf(events', Called.obj) = <<DefaultModeEvent(Called.obj, SERVER)>>
          ELSE /\ events' = events
               /\ objects' = objects]_vars

\* The manager was bound after a decoration had been created: its
\* default_mode event is the last one on the queue
C25_Witness ==
    /\ deco.last # <<>>
    /\ deco.last.req = "bind"
    /\ deco.last.result = Ok
    /\ Len(events) >= 2
    /\ events[Len(events)] = DefaultModeEvent(deco.last.obj, SERVER)

\* C26: create(surface, id) on the manager: if the surface id resolves to
\* an object of the client and id is free, a decoration object is registered
\* under id and exactly one mode event carrying SERVER is enqueued on it; if
\* the surface lookup fails or id is in use, the request fails, no mode
\* event is enqueued and, for a failed lookup, no object is registered.
C26_CreateAllOrNothing ==
    [][CreateStep =>
          IF objects[Called.arg] = "wl_surface" /\ objects[Called.obj] = "none"
          THEN /\ Called.result = Ok
               /\ objects' = [objects EXCEPT ![Called.obj] = DecoKind]
               /\ events' = Append(events, ModeEvent(Called.obj, SERVER))
          ELSE /\ Called.result # Ok
               /\ events' = events
               /\ objects[Called.arg] # "wl_surface" => objects' = objects]_vars

\* A create has succeeded after a create whose surface did not resolve had
\* failed: only the mode event of the second is on the queue
C26_Witness ==
    /\ deco.last # <<>>
    /\ deco.last.req = "create"
    /\ deco.last.result = Ok
    /\ nrequests = 2
    /\ Cardinality({i \in ObjectIds : objects[i] = DecoKind}) = 1
    /\ events = <<ModeEvent(deco.last.obj, SERVER)>>

\* C29: a request_mode that is rejected with the invalid-mode error leaves
\* the 'already requested' flag of the object unchanged: when no request had
\* been accepted before it, the next accepted request_mode is still answered
\* with SERVER, as if the rejected request had never been sent.
C29_RejectedLeavesFlag ==
    [][RequestModeStep =>
          IF Handled.result # Ok
          THEN requested' = requested /\ events' = events
          ELSE ~HasAccepted(reqlog, Handled.obj) =>
                  /\ ~requested[Handled.obj]
                  /\ events' = Append(events, ModeEvent(Handled.obj, SERVER))]_vars

\* On one object a request with a mode above SERVER was rejected, and the
\* request for CLIENT that followed it was answered with SERVER
C29_Witness ==
    \E id \in ObjectIds :
        /\ objects[id] = DecoKind
        /\ LogOf(reqlog, {id}) = << [obj |-> id, mode |-> SERVER + 1, result |-> InvalidMode(SERVER + 1)],
                                    [obj |-> id, mode |-> CLIENT, result |-> Ok] >>
        /\ events # <<>>
        /\ events[Len(events)] = ModeEvent(id, SERVER)

(***************************************************************************)
(* float_map_ws (state.rs)                                                 *)
(***************************************************************************)

float_map_ws_output_SeatFirst ==
    IF tree.seats > 0 THEN {tree.seat_output}
    ELSE IF RootNodes # {} THEN RootNodes
    ELSE {DummyNode}

\* The output float_map_ws takes the workspace of: the output of the seat
\* last active unless it is the dummy, or the first output that root.outputs
\* yields (a hash map: any of them), or the dummy
float_map_ws_output ==
    IF tree.seats > 0 /\ ~conn.nodes[tree.seat_output].is_dummy THEN {tree.seat_output}
    ELSE IF RootNodes # {} THEN RootNodes
    ELSE {DummyNode}

\* State::float_map_ws
float_map_ws ==
    /\ Running
    /\ Len(tree.wslog) < MaxFloatWs
    /\ \E output \in float_map_ws_output :
          LET e == ensure_workspace(conn, tree, output)
          IN /\ conn' = e.conn
             /\ tree' = [e.tree EXCEPT !.wslog = Append(@, [output |-> output, ws |-> e.ws])]
    /\ UNCHANGED <<decoVars, queue, dma>>

\* Workspaces are asked for floats while the seat moves and shows workspaces
NextFloatWs ==
    \/ \E n \in DOMAIN conn.nodes : SeatMove(n)
    \/ \E name \in ShownNames : show_workspace(name)
    \/ float_map_ws

SpecFloatWs == InitMap /\ [][NextFloatWs]_vars

\* This step is a call of float_map_ws
FloatWsStep == Len(tree'.wslog) = Len(tree.wslog) + 1

FloatWs == tree'.wslog[Len(tree'.wslog)]

\* C32: float_map_ws returns the workspace of the output of the most
\* recently active seat when a seat exists and its output is not the dummy
\* output, otherwise the workspace of the first output registered in the
\* root, and the workspace of the dummy output only if no output is
\* registered in the root.
C32_DummyWorkspaceOnlyWithoutOutputs ==
    [][FloatWsStep =>
          /\ IF tree.seats > 0 /\ tree.seat_output # DummyNode
             THEN FloatWs.output = tree.seat_output
             ELSE IF RootNodes # {}
             THEN FloatWs.output \in RootNodes
             ELSE FloatWs.output = DummyNode
          /\ FloatWs.output = DummyNode => RootNodes = {}
          /\ conn'.nodes[FloatWs.output].workspace = FloatWs.ws
          /\ tree'.workspaces[FloatWs.ws] = FloatWs.output]_vars

\* float_map_ws was called twice while two outputs were registered, each
\* time it returned the workspace of a registered output, and the seat is
\* on the dummy output
C32_Witness ==
    /\ Len(tree.wslog) = 2
    /\ Cardinality(RootNodes) = 2
    /\ tree.seats > 0
    /\ tree.seat_output = DummyNode
    /\ tree.wslog[1].output \in RootNodes
    /\ tree.wslog[2].output \in RootNodes

(***************************************************************************)
(* SyncQueue (utils/syncqueue.rs)                                          *)
(***************************************************************************)

\* bounds of the queue model
MaxElement == 2
MaxQueueCalls == 5

Elements == 1..MaxElement

None == <<"None">>
Some(t) == <<"Some", t>>

\* VecDeque::push_back
push_back(el, t) == Append(el, t)

pop_front_Back(el) ==
    IF el = <<>> THEN [el |-> el, ret |-> None]
    ELSE [el |-> SubSeq(el, 1, Len(el) - 1), ret |-> Some(el[Len(el)])]

\* VecDeque::pop_front
pop_front(el) ==
    IF el = <<>> THEN [el |-> el, ret |-> None]
    ELSE [el |-> Tail(el), ret |-> Some(Head(el))]

\* a call on the queue
QueueCall ==
    /\ queue.ncalls < MaxQueueCalls
    /\ UNCHANGED <<decoVars, conn, tree, dma>>

\* SyncQueue::push
push(t) ==
    /\ QueueCall
    /\ queue' = [queue EXCEPT !.el = push_back(@, t),
                              !.pushed = Append(@, t),
                              !.ncalls = @ + 1,
                              !.ret = <<"unit">>]

\* SyncQueue::pop
pop ==
    /\ QueueCall
    /\ LET r == pop_front(queue.el)
       IN queue' = [queue EXCEPT !.el = r.el,
                                 !.popped = IF r.ret = None THEN @ ELSE Append(@, r.ret[2]),
                                 !.ncalls = @ + 1,
                                 !.ret = r.ret]

\* SyncQueue::is_empty
is_empty ==
    /\ QueueCall
    /\ queue' = [queue EXCEPT !.ncalls = @ + 1, !.ret = <<"bool", queue.el = <<>>>>]

InitQueue ==
    /\ objects = [i \in ObjectIds |-> IF i \in Surfaces THEN "wl_surface" ELSE "none"]
    /\ requested = [i \in ObjectIds |-> FALSE]
    /\ events = <<>>
    /\ nrequests = 0
    /\ reqlog = <<>>
    /\ deco = InitDecoState
    /\ queue = InitQueueState
    /\ conn = InitConnState
    /\ tree = InitTreeState
    /\ dma = InitDmaState(NoRenderCtx)

NextQueue ==
    \/ \E t \in Elements : push(t)
    \/ pop
    \/ is_empty

SpecQueue == InitQueue /\ [][NextQueue]_vars

\* C33: SyncQueue is a FIFO queue: pop returns the elements in exactly the
\* order they were pushed, each exactly once; pop on an empty queue returns
\* None and leaves the queue empty; is_empty is true exactly when the
\* number of pushes equals the number of successful pops.
C33_SyncQueueIsFifo ==
    /\ [](queue.popped \o queue.el = queue.pushed)
    /\ [][queue'.ncalls = queue.ncalls + 1 =>
            /\ queue'.ret = None =>
                  /\ Len(queue.pushed) = Len(queue.popped)
                  /\ queue'.popped = queue.popped
                  /\ queue'.el = <<>>
            /\ queue'.ret[1] = "Some" =>
                  /\ Len(queue.pushed) > Len(queue.popped)
                  /\ queue'.popped = Append(queue.popped, queue'.ret[2])
                  /\ queue'.ret[2] = queue.pushed[Len(queue.popped) + 1]
            /\ queue'.ret[1] = "bool" =>
                  (queue'.ret[2] <=> Len(queue.pushed) = Len(queue.popped))]_vars

\* Two different elements were pushed and popped in that order, and a
\* third pop found the queue empty
C33_Witness ==
    /\ queue.pushed = <<2, 1>>
    /\ queue.popped = <<2, 1>>
    /\ queue.ret = None

====
